---------------------------- MODULE Spec2Model ----------------------------
(***************************************************************************)
(* A model of dxip.py: the speed normaliser (_parse_speed_to_mbps), the    *)
(* table scan of extract_telecom_ips (header detection, header             *)
(* classification, body rows, column mode, fallback mode, dedup, sort),    *)
(* fetch_html and main.                                                    *)
(*                                                                         *)
(* Text is a sequence of characters and a character is its code point, a   *)
(* number.  Text in printable ASCII is written Text(<<"I", "P">>) and one  *)
(* such character Code("s"); any other character is written as its number, *)
(* in hexadecimal (\h017F is U+017F):                                      *)
(*   \h7535 \h4FE1           the provider marker (China Telecom)           *)
(*   \h8054 \h901A           another provider (China Unicom)               *)
(*   \h5730 \h5740           "address"                                     *)
(*   \h7EBF \h8DEF           "line"                                        *)
(*   \h8FD0 \h8425 \h5546    "operator"                                    *)
(*   \h901F \h5EA6           "speed"                                       *)
(*   \h672A \h77E5           "unknown"                                     *)
(*   \h017F                  LATIN SMALL LETTER LONG S                     *)
(*   \h212A                  KELVIN SIGN                                   *)
(*   10                      the line feed                                 *)
(*                                                                         *)
(* The content of dx.txt is a sequence of bytes, the UTF-8 encoding of the  *)
(* text written to it.                                                     *)
(*                                                                         *)
(* A speed in Mbps is a float, a double of IEEE 754, given by its          *)
(* significand and its binary exponent; the arithmetic on speeds rounds as *)
(* Python's does.                                                          *)
(***************************************************************************)
EXTENDS Integers, Sequences, FiniteSets, TLC

VARIABLES
    pc,            \* position of the run
    fetched,       \* whether fetch_html has returned the document ("ok") or
                   \* raised on both attempts ("failed")
    ntables,       \* tables of the document taken so far
    headers_text,  \* texts of the header cells of the table at hand
    idx,           \* header cells classified so far
    ip_col, provider_col, speed_col,   \* the header mapping
    mode,          \* extraction mode of the table at hand
    has_thead,     \* whether the table at hand has a thead element
    has_tbody,     \* whether the table at hand has a tbody element
    header_row,    \* the row the header cells were taken from, if any
    tr_no,         \* rows (tr) of the table at hand read so far
    tbody_at,      \* where the rows read so far stand to the rows of the tbody:
                   \* "ahead" of them, among them ("open"), or past them ("closed")
    body_rows,     \* body rows read and not yet processed
    seen_ips,      \* addresses already recorded
    results,       \* records, in append order until sorted
    discovered,    \* history: the records in the order they were appended
    last_turn,     \* history: the body row the last turn of a row loop took,
                   \* the loop it was, and the records before it
    loops_run,     \* history: the row loops that took a turn on the table at hand
    items,         \* main: the list extract_telecom_ips returned
    lines,         \* main: the formatted lines
    written,       \* dx.txt: <<>> when there is no such file, else <<its content>>,
                   \* the content being the bytes of the file
    wrote,         \* history: whether main has written dx.txt without an
                   \* exception ("ok"), with one ("failed"), or not tried ("none")
    printed,       \* the lines printed so far
    rc,            \* exit code of main
    speed_text,    \* argument of _parse_speed_to_mbps
    parsed         \* its return value

vars == <<pc, fetched, ntables, headers_text, idx, ip_col, provider_col,
          speed_col, mode, has_thead, has_tbody, header_row, tr_no, tbody_at,
          body_rows, seen_ips, results, discovered, last_turn, loops_run, items, lines,
          written, wrote, printed, rc, speed_text, parsed>>

(***************************************************************************)
(* Characters.  A character is its code point.  The tables below are those *)
(* of Python 3 over all of Unicode: str.isspace and str.strip, str.lower,  *)
(* and \s, \d, \w and IGNORECASE of the re module.                         *)
(***************************************************************************)
\* the printable characters of ASCII, from the space (32) to the tilde (126);
\* "U+0060" holds the place of the grave accent
AsciiChars ==
    << " ", "!", "\"", "#", "$", "%", "&", "'", "(", ")", "*", "+", ",", "-",
       ".", "/", "0", "1", "2", "3", "4", "5", "6", "7", "8", "9", ":", ";",
       "<", "=", ">", "?", "@", "A", "B", "C", "D", "E", "F", "G", "H", "I",
       "J", "K", "L", "M", "N", "O", "P", "Q", "R", "S", "T", "U", "V", "W",
       "X", "Y", "Z", "[", "\\", "]", "^", "_", "U+0060", "a", "b", "c", "d",
       "e", "f", "g", "h", "i", "j", "k", "l", "m", "n", "o", "p", "q", "r",
       "s", "t", "u", "v", "w", "x", "y", "z", "{", "|", "}", "~" >>

\* the code point of a printable character of ASCII
Code(s) == 31 + CHOOSE k \in 1..Len(AsciiChars) : AsciiChars[k] = s

\* the text spelled with printable characters of ASCII
Text(s) == [k \in 1..Len(s) |-> Code(s[k])]

\* the characters str.strip removes and \s matches
SpaceChars ==
    { \h0009, \h000A, \h000B, \h000C, \h000D, \h001C, \h001D, \h001E, \h001F,
       \h0020, \h0085, \h00A0, \h1680, \h2000, \h2001, \h2002, \h2003, \h2004,
       \h2005, \h2006, \h2007, \h2008, \h2009, \h200A, \h2028, \h2029, \h202F,
       \h205F, \h3000 }

IsSpace(c) == c \in SpaceChars

\* the zero of each script's decimal digits; its digits 1 to 9 follow it
DigitZeros ==
    { \h0030, \h0660, \h06F0, \h07C0, \h0966, \h09E6, \h0A66, \h0AE6, \h0B66,
       \h0BE6, \h0C66, \h0CE6, \h0D66, \h0DE6, \h0E50, \h0ED0, \h0F20, \h1040,
       \h1090, \h17E0, \h1810, \h1946, \h19D0, \h1A80, \h1A90, \h1B50, \h1BB0,
       \h1C40, \h1C50, \hA620, \hA8D0, \hA900, \hA9D0, \hA9F0, \hAA50, \hABF0,
       \hFF10, \h104A0, \h10D30, \h11066, \h110F0, \h11136, \h111D0, \h112F0,
       \h11450, \h114D0, \h11650, \h116C0, \h11730, \h118E0, \h11950, \h11C50,
       \h11D50, \h11DA0, \h16A60, \h16AC0, \h16B50, \h1D7CE, \h1D7D8, \h1D7E2,
       \h1D7EC, \h1D7F6, \h1E140, \h1E2F0, \h1E950, \h1FBF0 }

\* the characters \d matches, the digits int and float read
DigitChars == UNION {z..(z + 9) : z \in DigitZeros}

IsDigit(c) == c \in DigitChars

\* the value int and float give the digit
DigitVal(c) == c - (CHOOSE z \in DigitZeros : z <= c /\ c <= z + 9)

\* where among rs[lo..hi] the range <<first, last, ...>> that holds c stands,
\* 0 when there is none; the ranges of a table are disjoint and in
\* increasing order
RECURSIVE RangeOf(_, _, _, _)
RangeOf(rs, c, lo, hi) ==
    IF lo > hi THEN 0
    ELSE IF c < rs[(lo + hi) \div 2][1] THEN RangeOf(rs, c, lo, (lo + hi) \div 2 - 1)
    ELSE IF c > rs[(lo + hi) \div 2][2] THEN RangeOf(rs, c, (lo + hi) \div 2 + 1, hi)
    ELSE (lo + hi) \div 2

\* the characters \w matches, <<first, last>>
WordRanges ==
    << <<\h0030, \h0039>>, <<\h0041, \h005A>>, <<\h005F, \h005F>>,
       <<\h0061, \h007A>>, <<\h00AA, \h00AA>>, <<\h00B2, \h00B3>>,
       <<\h00B5, \h00B5>>, <<\h00B9, \h00BA>>, <<\h00BC, \h00BE>>,
       <<\h00C0, \h00D6>>, <<\h00D8, \h00F6>>, <<\h00F8, \h02C1>>,
       <<\h02C6, \h02D1>>, <<\h02E0, \h02E4>>, <<\h02EC, \h02EC>>,
       <<\h02EE, \h02EE>>, <<\h0370, \h0374>>, <<\h0376, \h0377>>,
       <<\h037A, \h037D>>, <<\h037F, \h037F>>, <<\h0386, \h0386>>,
       <<\h0388, \h038A>>, <<\h038C, \h038C>>, <<\h038E, \h03A1>>,
       <<\h03A3, \h03F5>>, <<\h03F7, \h0481>>, <<\h048A, \h052F>>,
       <<\h0531, \h0556>>, <<\h0559, \h0559>>, <<\h0560, \h0588>>,
       <<\h05D0, \h05EA>>, <<\h05EF, \h05F2>>, <<\h0620, \h064A>>,
       <<\h0660, \h0669>>, <<\h066E, \h066F>>, <<\h0671, \h06D3>>,
       <<\h06D5, \h06D5>>, <<\h06E5, \h06E6>>, <<\h06EE, \h06FC>>,
       <<\h06FF, \h06FF>>, <<\h0710, \h0710>>, <<\h0712, \h072F>>,
       <<\h074D, \h07A5>>, <<\h07B1, \h07B1>>, <<\h07C0, \h07EA>>,
       <<\h07F4, \h07F5>>, <<\h07FA, \h07FA>>, <<\h0800, \h0815>>,
       <<\h081A, \h081A>>, <<\h0824, \h0824>>, <<\h0828, \h0828>>,
       <<\h0840, \h0858>>, <<\h0860, \h086A>>, <<\h0870, \h0887>>,
       <<\h0889, \h088E>>, <<\h08A0, \h08C9>>, <<\h0904, \h0939>>,
       <<\h093D, \h093D>>, <<\h0950, \h0950>>, <<\h0958, \h0961>>,
       <<\h0966, \h096F>>, <<\h0971, \h0980>>, <<\h0985, \h098C>>,
       <<\h098F, \h0990>>, <<\h0993, \h09A8>>, <<\h09AA, \h09B0>>,
       <<\h09B2, \h09B2>>, <<\h09B6, \h09B9>>, <<\h09BD, \h09BD>>,
       <<\h09CE, \h09CE>>, <<\h09DC, \h09DD>>, <<\h09DF, \h09E1>>,
       <<\h09E6, \h09F1>>, <<\h09F4, \h09F9>>, <<\h09FC, \h09FC>>,
       <<\h0A05, \h0A0A>>, <<\h0A0F, \h0A10>>, <<\h0A13, \h0A28>>,
       <<\h0A2A, \h0A30>>, <<\h0A32, \h0A33>>, <<\h0A35, \h0A36>>,
       <<\h0A38, \h0A39>>, <<\h0A59, \h0A5C>>, <<\h0A5E, \h0A5E>>,
       <<\h0A66, \h0A6F>>, <<\h0A72, \h0A74>>, <<\h0A85, \h0A8D>>,
       <<\h0A8F, \h0A91>>, <<\h0A93, \h0AA8>>, <<\h0AAA, \h0AB0>>,
       <<\h0AB2, \h0AB3>>, <<\h0AB5, \h0AB9>>, <<\h0ABD, \h0ABD>>,
       <<\h0AD0, \h0AD0>>, <<\h0AE0, \h0AE1>>, <<\h0AE6, \h0AEF>>,
       <<\h0AF9, \h0AF9>>, <<\h0B05, \h0B0C>>, <<\h0B0F, \h0B10>>,
       <<\h0B13, \h0B28>>, <<\h0B2A, \h0B30>>, <<\h0B32, \h0B33>>,
       <<\h0B35, \h0B39>>, <<\h0B3D, \h0B3D>>, <<\h0B5C, \h0B5D>>,
       <<\h0B5F, \h0B61>>, <<\h0B66, \h0B6F>>, <<\h0B71, \h0B77>>,
       <<\h0B83, \h0B83>>, <<\h0B85, \h0B8A>>, <<\h0B8E, \h0B90>>,
       <<\h0B92, \h0B95>>, <<\h0B99, \h0B9A>>, <<\h0B9C, \h0B9C>>,
       <<\h0B9E, \h0B9F>>, <<\h0BA3, \h0BA4>>, <<\h0BA8, \h0BAA>>,
       <<\h0BAE, \h0BB9>>, <<\h0BD0, \h0BD0>>, <<\h0BE6, \h0BF2>>,
       <<\h0C05, \h0C0C>>, <<\h0C0E, \h0C10>>, <<\h0C12, \h0C28>>,
       <<\h0C2A, \h0C39>>, <<\h0C3D, \h0C3D>>, <<\h0C58, \h0C5A>>,
       <<\h0C5D, \h0C5D>>, <<\h0C60, \h0C61>>, <<\h0C66, \h0C6F>>,
       <<\h0C78, \h0C7E>>, <<\h0C80, \h0C80>>, <<\h0C85, \h0C8C>>,
       <<\h0C8E, \h0C90>>, <<\h0C92, \h0CA8>>, <<\h0CAA, \h0CB3>>,
       <<\h0CB5, \h0CB9>>, <<\h0CBD, \h0CBD>>, <<\h0CDD, \h0CDE>>,
       <<\h0CE0, \h0CE1>>, <<\h0CE6, \h0CEF>>, <<\h0CF1, \h0CF2>>,
       <<\h0D04, \h0D0C>>, <<\h0D0E, \h0D10>>, <<\h0D12, \h0D3A>>,
       <<\h0D3D, \h0D3D>>, <<\h0D4E, \h0D4E>>, <<\h0D54, \h0D56>>,
       <<\h0D58, \h0D61>>, <<\h0D66, \h0D78>>, <<\h0D7A, \h0D7F>>,
       <<\h0D85, \h0D96>>, <<\h0D9A, \h0DB1>>, <<\h0DB3, \h0DBB>>,
       <<\h0DBD, \h0DBD>>, <<\h0DC0, \h0DC6>>, <<\h0DE6, \h0DEF>>,
       <<\h0E01, \h0E30>>, <<\h0E32, \h0E33>>, <<\h0E40, \h0E46>>,
       <<\h0E50, \h0E59>>, <<\h0E81, \h0E82>>, <<\h0E84, \h0E84>>,
       <<\h0E86, \h0E8A>>, <<\h0E8C, \h0EA3>>, <<\h0EA5, \h0EA5>>,
       <<\h0EA7, \h0EB0>>, <<\h0EB2, \h0EB3>>, <<\h0EBD, \h0EBD>>,
       <<\h0EC0, \h0EC4>>, <<\h0EC6, \h0EC6>>, <<\h0ED0, \h0ED9>>,
       <<\h0EDC, \h0EDF>>, <<\h0F00, \h0F00>>, <<\h0F20, \h0F33>>,
       <<\h0F40, \h0F47>>, <<\h0F49, \h0F6C>>, <<\h0F88, \h0F8C>>,
       <<\h1000, \h102A>>, <<\h103F, \h1049>>, <<\h1050, \h1055>>,
       <<\h105A, \h105D>>, <<\h1061, \h1061>>, <<\h1065, \h1066>>,
       <<\h106E, \h1070>>, <<\h1075, \h1081>>, <<\h108E, \h108E>>,
       <<\h1090, \h1099>>, <<\h10A0, \h10C5>>, <<\h10C7, \h10C7>>,
       <<\h10CD, \h10CD>>, <<\h10D0, \h10FA>>, <<\h10FC, \h1248>>,
       <<\h124A, \h124D>>, <<\h1250, \h1256>>, <<\h1258, \h1258>>,
       <<\h125A, \h125D>>, <<\h1260, \h1288>>, <<\h128A, \h128D>>,
       <<\h1290, \h12B0>>, <<\h12B2, \h12B5>>, <<\h12B8, \h12BE>>,
       <<\h12C0, \h12C0>>, <<\h12C2, \h12C5>>, <<\h12C8, \h12D6>>,
       <<\h12D8, \h1310>>, <<\h1312, \h1315>>, <<\h1318, \h135A>>,
       <<\h1369, \h137C>>, <<\h1380, \h138F>>, <<\h13A0, \h13F5>>,
       <<\h13F8, \h13FD>>, <<\h1401, \h166C>>, <<\h166F, \h167F>>,
       <<\h1681, \h169A>>, <<\h16A0, \h16EA>>, <<\h16EE, \h16F8>>,
       <<\h1700, \h1711>>, <<\h171F, \h1731>>, <<\h1740, \h1751>>,
       <<\h1760, \h176C>>, <<\h176E, \h1770>>, <<\h1780, \h17B3>>,
       <<\h17D7, \h17D7>>, <<\h17DC, \h17DC>>, <<\h17E0, \h17E9>>,
       <<\h17F0, \h17F9>>, <<\h1810, \h1819>>, <<\h1820, \h1878>>,
       <<\h1880, \h1884>>, <<\h1887, \h18A8>>, <<\h18AA, \h18AA>>,
       <<\h18B0, \h18F5>>, <<\h1900, \h191E>>, <<\h1946, \h196D>>,
       <<\h1970, \h1974>>, <<\h1980, \h19AB>>, <<\h19B0, \h19C9>>,
       <<\h19D0, \h19DA>>, <<\h1A00, \h1A16>>, <<\h1A20, \h1A54>>,
       <<\h1A80, \h1A89>>, <<\h1A90, \h1A99>>, <<\h1AA7, \h1AA7>>,
       <<\h1B05, \h1B33>>, <<\h1B45, \h1B4C>>, <<\h1B50, \h1B59>>,
       <<\h1B83, \h1BA0>>, <<\h1BAE, \h1BE5>>, <<\h1C00, \h1C23>>,
       <<\h1C40, \h1C49>>, <<\h1C4D, \h1C7D>>, <<\h1C80, \h1C88>>,
       <<\h1C90, \h1CBA>>, <<\h1CBD, \h1CBF>>, <<\h1CE9, \h1CEC>>,
       <<\h1CEE, \h1CF3>>, <<\h1CF5, \h1CF6>>, <<\h1CFA, \h1CFA>>,
       <<\h1D00, \h1DBF>>, <<\h1E00, \h1F15>>, <<\h1F18, \h1F1D>>,
       <<\h1F20, \h1F45>>, <<\h1F48, \h1F4D>>, <<\h1F50, \h1F57>>,
       <<\h1F59, \h1F59>>, <<\h1F5B, \h1F5B>>, <<\h1F5D, \h1F5D>>,
       <<\h1F5F, \h1F7D>>, <<\h1F80, \h1FB4>>, <<\h1FB6, \h1FBC>>,
       <<\h1FBE, \h1FBE>>, <<\h1FC2, \h1FC4>>, <<\h1FC6, \h1FCC>>,
       <<\h1FD0, \h1FD3>>, <<\h1FD6, \h1FDB>>, <<\h1FE0, \h1FEC>>,
       <<\h1FF2, \h1FF4>>, <<\h1FF6, \h1FFC>>, <<\h2070, \h2071>>,
       <<\h2074, \h2079>>, <<\h207F, \h2089>>, <<\h2090, \h209C>>,
       <<\h2102, \h2102>>, <<\h2107, \h2107>>, <<\h210A, \h2113>>,
       <<\h2115, \h2115>>, <<\h2119, \h211D>>, <<\h2124, \h2124>>,
       <<\h2126, \h2126>>, <<\h2128, \h2128>>, <<\h212A, \h212D>>,
       <<\h212F, \h2139>>, <<\h213C, \h213F>>, <<\h2145, \h2149>>,
       <<\h214E, \h214E>>, <<\h2150, \h2189>>, <<\h2460, \h249B>>,
       <<\h24EA, \h24FF>>, <<\h2776, \h2793>>, <<\h2C00, \h2CE4>>,
       <<\h2CEB, \h2CEE>>, <<\h2CF2, \h2CF3>>, <<\h2CFD, \h2CFD>>,
       <<\h2D00, \h2D25>>, <<\h2D27, \h2D27>>, <<\h2D2D, \h2D2D>>,
       <<\h2D30, \h2D67>>, <<\h2D6F, \h2D6F>>, <<\h2D80, \h2D96>>,
       <<\h2DA0, \h2DA6>>, <<\h2DA8, \h2DAE>>, <<\h2DB0, \h2DB6>>,
       <<\h2DB8, \h2DBE>>, <<\h2DC0, \h2DC6>>, <<\h2DC8, \h2DCE>>,
       <<\h2DD0, \h2DD6>>, <<\h2DD8, \h2DDE>>, <<\h2E2F, \h2E2F>>,
       <<\h3005, \h3007>>, <<\h3021, \h3029>>, <<\h3031, \h3035>>,
       <<\h3038, \h303C>>, <<\h3041, \h3096>>, <<\h309D, \h309F>>,
       <<\h30A1, \h30FA>>, <<\h30FC, \h30FF>>, <<\h3105, \h312F>>,
       <<\h3131, \h318E>>, <<\h3192, \h3195>>, <<\h31A0, \h31BF>>,
       <<\h31F0, \h31FF>>, <<\h3220, \h3229>>, <<\h3248, \h324F>>,
       <<\h3251, \h325F>>, <<\h3280, \h3289>>, <<\h32B1, \h32BF>>,
       <<\h3400, \h4DBF>>, <<\h4E00, \hA48C>>, <<\hA4D0, \hA4FD>>,
       <<\hA500, \hA60C>>, <<\hA610, \hA62B>>, <<\hA640, \hA66E>>,
       <<\hA67F, \hA69D>>, <<\hA6A0, \hA6EF>>, <<\hA717, \hA71F>>,
       <<\hA722, \hA788>>, <<\hA78B, \hA7CA>>, <<\hA7D0, \hA7D1>>,
       <<\hA7D3, \hA7D3>>, <<\hA7D5, \hA7D9>>, <<\hA7F2, \hA801>>,
       <<\hA803, \hA805>>, <<\hA807, \hA80A>>, <<\hA80C, \hA822>>,
       <<\hA830, \hA835>>, <<\hA840, \hA873>>, <<\hA882, \hA8B3>>,
       <<\hA8D0, \hA8D9>>, <<\hA8F2, \hA8F7>>, <<\hA8FB, \hA8FB>>,
       <<\hA8FD, \hA8FE>>, <<\hA900, \hA925>>, <<\hA930, \hA946>>,
       <<\hA960, \hA97C>>, <<\hA984, \hA9B2>>, <<\hA9CF, \hA9D9>>,
       <<\hA9E0, \hA9E4>>, <<\hA9E6, \hA9FE>>, <<\hAA00, \hAA28>>,
       <<\hAA40, \hAA42>>, <<\hAA44, \hAA4B>>, <<\hAA50, \hAA59>>,
       <<\hAA60, \hAA76>>, <<\hAA7A, \hAA7A>>, <<\hAA7E, \hAAAF>>,
       <<\hAAB1, \hAAB1>>, <<\hAAB5, \hAAB6>>, <<\hAAB9, \hAABD>>,
       <<\hAAC0, \hAAC0>>, <<\hAAC2, \hAAC2>>, <<\hAADB, \hAADD>>,
       <<\hAAE0, \hAAEA>>, <<\hAAF2, \hAAF4>>, <<\hAB01, \hAB06>>,
       <<\hAB09, \hAB0E>>, <<\hAB11, \hAB16>>, <<\hAB20, \hAB26>>,
       <<\hAB28, \hAB2E>>, <<\hAB30, \hAB5A>>, <<\hAB5C, \hAB69>>,
       <<\hAB70, \hABE2>>, <<\hABF0, \hABF9>>, <<\hAC00, \hD7A3>>,
       <<\hD7B0, \hD7C6>>, <<\hD7CB, \hD7FB>>, <<\hF900, \hFA6D>>,
       <<\hFA70, \hFAD9>>, <<\hFB00, \hFB06>>, <<\hFB13, \hFB17>>,
       <<\hFB1D, \hFB1D>>, <<\hFB1F, \hFB28>>, <<\hFB2A, \hFB36>>,
       <<\hFB38, \hFB3C>>, <<\hFB3E, \hFB3E>>, <<\hFB40, \hFB41>>,
       <<\hFB43, \hFB44>>, <<\hFB46, \hFBB1>>, <<\hFBD3, \hFD3D>>,
       <<\hFD50, \hFD8F>>, <<\hFD92, \hFDC7>>, <<\hFDF0, \hFDFB>>,
       <<\hFE70, \hFE74>>, <<\hFE76, \hFEFC>>, <<\hFF10, \hFF19>>,
       <<\hFF21, \hFF3A>>, <<\hFF41, \hFF5A>>, <<\hFF66, \hFFBE>>,
       <<\hFFC2, \hFFC7>>, <<\hFFCA, \hFFCF>>, <<\hFFD2, \hFFD7>>,
       <<\hFFDA, \hFFDC>>, <<\h10000, \h1000B>>, <<\h1000D, \h10026>>,
       <<\h10028, \h1003A>>, <<\h1003C, \h1003D>>, <<\h1003F, \h1004D>>,
       <<\h10050, \h1005D>>, <<\h10080, \h100FA>>, <<\h10107, \h10133>>,
       <<\h10140, \h10178>>, <<\h1018A, \h1018B>>, <<\h10280, \h1029C>>,
       <<\h102A0, \h102D0>>, <<\h102E1, \h102FB>>, <<\h10300, \h10323>>,
       <<\h1032D, \h1034A>>, <<\h10350, \h10375>>, <<\h10380, \h1039D>>,
       <<\h103A0, \h103C3>>, <<\h103C8, \h103CF>>, <<\h103D1, \h103D5>>,
       <<\h10400, \h1049D>>, <<\h104A0, \h104A9>>, <<\h104B0, \h104D3>>,
       <<\h104D8, \h104FB>>, <<\h10500, \h10527>>, <<\h10530, \h10563>>,
       <<\h10570, \h1057A>>, <<\h1057C, \h1058A>>, <<\h1058C, \h10592>>,
       <<\h10594, \h10595>>, <<\h10597, \h105A1>>, <<\h105A3, \h105B1>>,
       <<\h105B3, \h105B9>>, <<\h105BB, \h105BC>>, <<\h10600, \h10736>>,
       <<\h10740, \h10755>>, <<\h10760, \h10767>>, <<\h10780, \h10785>>,
       <<\h10787, \h107B0>>, <<\h107B2, \h107BA>>, <<\h10800, \h10805>>,
       <<\h10808, \h10808>>, <<\h1080A, \h10835>>, <<\h10837, \h10838>>,
       <<\h1083C, \h1083C>>, <<\h1083F, \h10855>>, <<\h10858, \h10876>>,
       <<\h10879, \h1089E>>, <<\h108A7, \h108AF>>, <<\h108E0, \h108F2>>,
       <<\h108F4, \h108F5>>, <<\h108FB, \h1091B>>, <<\h10920, \h10939>>,
       <<\h10980, \h109B7>>, <<\h109BC, \h109CF>>, <<\h109D2, \h10A00>>,
       <<\h10A10, \h10A13>>, <<\h10A15, \h10A17>>, <<\h10A19, \h10A35>>,
       <<\h10A40, \h10A48>>, <<\h10A60, \h10A7E>>, <<\h10A80, \h10A9F>>,
       <<\h10AC0, \h10AC7>>, <<\h10AC9, \h10AE4>>, <<\h10AEB, \h10AEF>>,
       <<\h10B00, \h10B35>>, <<\h10B40, \h10B55>>, <<\h10B58, \h10B72>>,
       <<\h10B78, \h10B91>>, <<\h10BA9, \h10BAF>>, <<\h10C00, \h10C48>>,
       <<\h10C80, \h10CB2>>, <<\h10CC0, \h10CF2>>, <<\h10CFA, \h10D23>>,
       <<\h10D30, \h10D39>>, <<\h10E60, \h10E7E>>, <<\h10E80, \h10EA9>>,
       <<\h10EB0, \h10EB1>>, <<\h10F00, \h10F27>>, <<\h10F30, \h10F45>>,
       <<\h10F51, \h10F54>>, <<\h10F70, \h10F81>>, <<\h10FB0, \h10FCB>>,
       <<\h10FE0, \h10FF6>>, <<\h11003, \h11037>>, <<\h11052, \h1106F>>,
       <<\h11071, \h11072>>, <<\h11075, \h11075>>, <<\h11083, \h110AF>>,
       <<\h110D0, \h110E8>>, <<\h110F0, \h110F9>>, <<\h11103, \h11126>>,
       <<\h11136, \h1113F>>, <<\h11144, \h11144>>, <<\h11147, \h11147>>,
       <<\h11150, \h11172>>, <<\h11176, \h11176>>, <<\h11183, \h111B2>>,
       <<\h111C1, \h111C4>>, <<\h111D0, \h111DA>>, <<\h111DC, \h111DC>>,
       <<\h111E1, \h111F4>>, <<\h11200, \h11211>>, <<\h11213, \h1122B>>,
       <<\h11280, \h11286>>, <<\h11288, \h11288>>, <<\h1128A, \h1128D>>,
       <<\h1128F, \h1129D>>, <<\h1129F, \h112A8>>, <<\h112B0, \h112DE>>,
       <<\h112F0, \h112F9>>, <<\h11305, \h1130C>>, <<\h1130F, \h11310>>,
       <<\h11313, \h11328>>, <<\h1132A, \h11330>>, <<\h11332, \h11333>>,
       <<\h11335, \h11339>>, <<\h1133D, \h1133D>>, <<\h11350, \h11350>>,
       <<\h1135D, \h11361>>, <<\h11400, \h11434>>, <<\h11447, \h1144A>>,
       <<\h11450, \h11459>>, <<\h1145F, \h11461>>, <<\h11480, \h114AF>>,
       <<\h114C4, \h114C5>>, <<\h114C7, \h114C7>>, <<\h114D0, \h114D9>>,
       <<\h11580, \h115AE>>, <<\h115D8, \h115DB>>, <<\h11600, \h1162F>>,
       <<\h11644, \h11644>>, <<\h11650, \h11659>>, <<\h11680, \h116AA>>,
       <<\h116B8, \h116B8>>, <<\h116C0, \h116C9>>, <<\h11700, \h1171A>>,
       <<\h11730, \h1173B>>, <<\h11740, \h11746>>, <<\h11800, \h1182B>>,
       <<\h118A0, \h118F2>>, <<\h118FF, \h11906>>, <<\h11909, \h11909>>,
       <<\h1190C, \h11913>>, <<\h11915, \h11916>>, <<\h11918, \h1192F>>,
       <<\h1193F, \h1193F>>, <<\h11941, \h11941>>, <<\h11950, \h11959>>,
       <<\h119A0, \h119A7>>, <<\h119AA, \h119D0>>, <<\h119E1, \h119E1>>,
       <<\h119E3, \h119E3>>, <<\h11A00, \h11A00>>, <<\h11A0B, \h11A32>>,
       <<\h11A3A, \h11A3A>>, <<\h11A50, \h11A50>>, <<\h11A5C, \h11A89>>,
       <<\h11A9D, \h11A9D>>, <<\h11AB0, \h11AF8>>, <<\h11C00, \h11C08>>,
       <<\h11C0A, \h11C2E>>, <<\h11C40, \h11C40>>, <<\h11C50, \h11C6C>>,
       <<\h11C72, \h11C8F>>, <<\h11D00, \h11D06>>, <<\h11D08, \h11D09>>,
       <<\h11D0B, \h11D30>>, <<\h11D46, \h11D46>>, <<\h11D50, \h11D59>>,
       <<\h11D60, \h11D65>>, <<\h11D67, \h11D68>>, <<\h11D6A, \h11D89>>,
       <<\h11D98, \h11D98>>, <<\h11DA0, \h11DA9>>, <<\h11EE0, \h11EF2>>,
       <<\h11FB0, \h11FB0>>, <<\h11FC0, \h11FD4>>, <<\h12000, \h12399>>,
       <<\h12400, \h1246E>>, <<\h12480, \h12543>>, <<\h12F90, \h12FF0>>,
       <<\h13000, \h1342E>>, <<\h14400, \h14646>>, <<\h16800, \h16A38>>,
       <<\h16A40, \h16A5E>>, <<\h16A60, \h16A69>>, <<\h16A70, \h16ABE>>,
       <<\h16AC0, \h16AC9>>, <<\h16AD0, \h16AED>>, <<\h16B00, \h16B2F>>,
       <<\h16B40, \h16B43>>, <<\h16B50, \h16B59>>, <<\h16B5B, \h16B61>>,
       <<\h16B63, \h16B77>>, <<\h16B7D, \h16B8F>>, <<\h16E40, \h16E96>>,
       <<\h16F00, \h16F4A>>, <<\h16F50, \h16F50>>, <<\h16F93, \h16F9F>>,
       <<\h16FE0, \h16FE1>>, <<\h16FE3, \h16FE3>>, <<\h17000, \h187F7>>,
       <<\h18800, \h18CD5>>, <<\h18D00, \h18D08>>, <<\h1AFF0, \h1AFF3>>,
       <<\h1AFF5, \h1AFFB>>, <<\h1AFFD, \h1AFFE>>, <<\h1B000, \h1B122>>,
       <<\h1B150, \h1B152>>, <<\h1B164, \h1B167>>, <<\h1B170, \h1B2FB>>,
       <<\h1BC00, \h1BC6A>>, <<\h1BC70, \h1BC7C>>, <<\h1BC80, \h1BC88>>,
       <<\h1BC90, \h1BC99>>, <<\h1D2E0, \h1D2F3>>, <<\h1D360, \h1D378>>,
       <<\h1D400, \h1D454>>, <<\h1D456, \h1D49C>>, <<\h1D49E, \h1D49F>>,
       <<\h1D4A2, \h1D4A2>>, <<\h1D4A5, \h1D4A6>>, <<\h1D4A9, \h1D4AC>>,
       <<\h1D4AE, \h1D4B9>>, <<\h1D4BB, \h1D4BB>>, <<\h1D4BD, \h1D4C3>>,
       <<\h1D4C5, \h1D505>>, <<\h1D507, \h1D50A>>, <<\h1D50D, \h1D514>>,
       <<\h1D516, \h1D51C>>, <<\h1D51E, \h1D539>>, <<\h1D53B, \h1D53E>>,
       <<\h1D540, \h1D544>>, <<\h1D546, \h1D546>>, <<\h1D54A, \h1D550>>,
       <<\h1D552, \h1D6A5>>, <<\h1D6A8, \h1D6C0>>, <<\h1D6C2, \h1D6DA>>,
       <<\h1D6DC, \h1D6FA>>, <<\h1D6FC, \h1D714>>, <<\h1D716, \h1D734>>,
       <<\h1D736, \h1D74E>>, <<\h1D750, \h1D76E>>, <<\h1D770, \h1D788>>,
       <<\h1D78A, \h1D7A8>>, <<\h1D7AA, \h1D7C2>>, <<\h1D7C4, \h1D7CB>>,
       <<\h1D7CE, \h1D7FF>>, <<\h1DF00, \h1DF1E>>, <<\h1E100, \h1E12C>>,
       <<\h1E137, \h1E13D>>, <<\h1E140, \h1E149>>, <<\h1E14E, \h1E14E>>,
       <<\h1E290, \h1E2AD>>, <<\h1E2C0, \h1E2EB>>, <<\h1E2F0, \h1E2F9>>,
       <<\h1E7E0, \h1E7E6>>, <<\h1E7E8, \h1E7EB>>, <<\h1E7ED, \h1E7EE>>,
       <<\h1E7F0, \h1E7FE>>, <<\h1E800, \h1E8C4>>, <<\h1E8C7, \h1E8CF>>,
       <<\h1E900, \h1E943>>, <<\h1E94B, \h1E94B>>, <<\h1E950, \h1E959>>,
       <<\h1EC71, \h1ECAB>>, <<\h1ECAD, \h1ECAF>>, <<\h1ECB1, \h1ECB4>>,
       <<\h1ED01, \h1ED2D>>, <<\h1ED2F, \h1ED3D>>, <<\h1EE00, \h1EE03>>,
       <<\h1EE05, \h1EE1F>>, <<\h1EE21, \h1EE22>>, <<\h1EE24, \h1EE24>>,
       <<\h1EE27, \h1EE27>>, <<\h1EE29, \h1EE32>>, <<\h1EE34, \h1EE37>>,
       <<\h1EE39, \h1EE39>>, <<\h1EE3B, \h1EE3B>>, <<\h1EE42, \h1EE42>>,
       <<\h1EE47, \h1EE47>>, <<\h1EE49, \h1EE49>>, <<\h1EE4B, \h1EE4B>>,
       <<\h1EE4D, \h1EE4F>>, <<\h1EE51, \h1EE52>>, <<\h1EE54, \h1EE54>>,
       <<\h1EE57, \h1EE57>>, <<\h1EE59, \h1EE59>>, <<\h1EE5B, \h1EE5B>>,
       <<\h1EE5D, \h1EE5D>>, <<\h1EE5F, \h1EE5F>>, <<\h1EE61, \h1EE62>>,
       <<\h1EE64, \h1EE64>>, <<\h1EE67, \h1EE6A>>, <<\h1EE6C, \h1EE72>>,
       <<\h1EE74, \h1EE77>>, <<\h1EE79, \h1EE7C>>, <<\h1EE7E, \h1EE7E>>,
       <<\h1EE80, \h1EE89>>, <<\h1EE8B, \h1EE9B>>, <<\h1EEA1, \h1EEA3>>,
       <<\h1EEA5, \h1EEA9>>, <<\h1EEAB, \h1EEBB>>, <<\h1F100, \h1F10C>>,
       <<\h1FBF0, \h1FBF9>>, <<\h20000, \h2A6DF>>, <<\h2A700, \h2B738>>,
       <<\h2B740, \h2B81D>>, <<\h2B820, \h2CEA1>>, <<\h2CEB0, \h2EBE0>>,
       <<\h2F800, \h2FA1D>>, <<\h30000, \h3134A>> >>

IsWordChar(c) == RangeOf(WordRanges, c, 1, Len(WordRanges)) /= 0

\* the characters with a lower-case form of their own, <<first, last, step, d>>:
\* every step-th character from first to last, its lower-case form d code
\* points after it
LowerRanges ==
    << <<\h0041, \h005A, 1, 32>>, <<\h00C0, \h00D6, 1, 32>>,
       <<\h00D8, \h00DE, 1, 32>>, <<\h0100, \h012E, 2, 1>>,
       <<\h0130, \h0130, 1, -199>>, <<\h0132, \h0136, 2, 1>>,
       <<\h0139, \h0147, 2, 1>>, <<\h014A, \h0176, 2, 1>>,
       <<\h0178, \h0178, 1, -121>>, <<\h0179, \h017D, 2, 1>>,
       <<\h0181, \h0181, 1, 210>>, <<\h0182, \h0184, 2, 1>>,
       <<\h0186, \h0186, 1, 206>>, <<\h0187, \h0187, 1, 1>>,
       <<\h0189, \h018A, 1, 205>>, <<\h018B, \h018B, 1, 1>>,
       <<\h018E, \h018E, 1, 79>>, <<\h018F, \h018F, 1, 202>>,
       <<\h0190, \h0190, 1, 203>>, <<\h0191, \h0191, 1, 1>>,
       <<\h0193, \h0193, 1, 205>>, <<\h0194, \h0194, 1, 207>>,
       <<\h0196, \h0196, 1, 211>>, <<\h0197, \h0197, 1, 209>>,
       <<\h0198, \h0198, 1, 1>>, <<\h019C, \h019C, 1, 211>>,
       <<\h019D, \h019D, 1, 213>>, <<\h019F, \h019F, 1, 214>>,
       <<\h01A0, \h01A4, 2, 1>>, <<\h01A6, \h01A6, 1, 218>>,
       <<\h01A7, \h01A7, 1, 1>>, <<\h01A9, \h01A9, 1, 218>>,
       <<\h01AC, \h01AC, 1, 1>>, <<\h01AE, \h01AE, 1, 218>>,
       <<\h01AF, \h01AF, 1, 1>>, <<\h01B1, \h01B2, 1, 217>>,
       <<\h01B3, \h01B5, 2, 1>>, <<\h01B7, \h01B7, 1, 219>>,
       <<\h01B8, \h01B8, 1, 1>>, <<\h01BC, \h01BC, 1, 1>>,
       <<\h01C4, \h01C4, 1, 2>>, <<\h01C5, \h01C5, 1, 1>>,
       <<\h01C7, \h01C7, 1, 2>>, <<\h01C8, \h01C8, 1, 1>>,
       <<\h01CA, \h01CA, 1, 2>>, <<\h01CB, \h01DB, 2, 1>>,
       <<\h01DE, \h01EE, 2, 1>>, <<\h01F1, \h01F1, 1, 2>>,
       <<\h01F2, \h01F4, 2, 1>>, <<\h01F6, \h01F6, 1, -97>>,
       <<\h01F7, \h01F7, 1, -56>>, <<\h01F8, \h021E, 2, 1>>,
       <<\h0220, \h0220, 1, -130>>, <<\h0222, \h0232, 2, 1>>,
       <<\h023A, \h023A, 1, 10795>>, <<\h023B, \h023B, 1, 1>>,
       <<\h023D, \h023D, 1, -163>>, <<\h023E, \h023E, 1, 10792>>,
       <<\h0241, \h0241, 1, 1>>, <<\h0243, \h0243, 1, -195>>,
       <<\h0244, \h0244, 1, 69>>, <<\h0245, \h0245, 1, 71>>,
       <<\h0246, \h024E, 2, 1>>, <<\h0370, \h0372, 2, 1>>,
       <<\h0376, \h0376, 1, 1>>, <<\h037F, \h037F, 1, 116>>,
       <<\h0386, \h0386, 1, 38>>, <<\h0388, \h038A, 1, 37>>,
       <<\h038C, \h038C, 1, 64>>, <<\h038E, \h038F, 1, 63>>,
       <<\h0391, \h03A1, 1, 32>>, <<\h03A3, \h03AB, 1, 32>>,
       <<\h03CF, \h03CF, 1, 8>>, <<\h03D8, \h03EE, 2, 1>>,
       <<\h03F4, \h03F4, 1, -60>>, <<\h03F7, \h03F7, 1, 1>>,
       <<\h03F9, \h03F9, 1, -7>>, <<\h03FA, \h03FA, 1, 1>>,
       <<\h03FD, \h03FF, 1, -130>>, <<\h0400, \h040F, 1, 80>>,
       <<\h0410, \h042F, 1, 32>>, <<\h0460, \h0480, 2, 1>>,
       <<\h048A, \h04BE, 2, 1>>, <<\h04C0, \h04C0, 1, 15>>,
       <<\h04C1, \h04CD, 2, 1>>, <<\h04D0, \h052E, 2, 1>>,
       <<\h0531, \h0556, 1, 48>>, <<\h10A0, \h10C5, 1, 7264>>,
       <<\h10C7, \h10C7, 1, 7264>>, <<\h10CD, \h10CD, 1, 7264>>,
       <<\h13A0, \h13EF, 1, 38864>>, <<\h13F0, \h13F5, 1, 8>>,
       <<\h1C90, \h1CBA, 1, -3008>>, <<\h1CBD, \h1CBF, 1, -3008>>,
       <<\h1E00, \h1E94, 2, 1>>, <<\h1E9E, \h1E9E, 1, -7615>>,
       <<\h1EA0, \h1EFE, 2, 1>>, <<\h1F08, \h1F0F, 1, -8>>,
       <<\h1F18, \h1F1D, 1, -8>>, <<\h1F28, \h1F2F, 1, -8>>,
       <<\h1F38, \h1F3F, 1, -8>>, <<\h1F48, \h1F4D, 1, -8>>,
       <<\h1F59, \h1F5F, 2, -8>>, <<\h1F68, \h1F6F, 1, -8>>,
       <<\h1F88, \h1F8F, 1, -8>>, <<\h1F98, \h1F9F, 1, -8>>,
       <<\h1FA8, \h1FAF, 1, -8>>, <<\h1FB8, \h1FB9, 1, -8>>,
       <<\h1FBA, \h1FBB, 1, -74>>, <<\h1FBC, \h1FBC, 1, -9>>,
       <<\h1FC8, \h1FCB, 1, -86>>, <<\h1FCC, \h1FCC, 1, -9>>,
       <<\h1FD8, \h1FD9, 1, -8>>, <<\h1FDA, \h1FDB, 1, -100>>,
       <<\h1FE8, \h1FE9, 1, -8>>, <<\h1FEA, \h1FEB, 1, -112>>,
       <<\h1FEC, \h1FEC, 1, -7>>, <<\h1FF8, \h1FF9, 1, -128>>,
       <<\h1FFA, \h1FFB, 1, -126>>, <<\h1FFC, \h1FFC, 1, -9>>,
       <<\h2126, \h2126, 1, -7517>>, <<\h212A, \h212A, 1, -8383>>,
       <<\h212B, \h212B, 1, -8262>>, <<\h2132, \h2132, 1, 28>>,
       <<\h2160, \h216F, 1, 16>>, <<\h2183, \h2183, 1, 1>>,
       <<\h24B6, \h24CF, 1, 26>>, <<\h2C00, \h2C2F, 1, 48>>,
       <<\h2C60, \h2C60, 1, 1>>, <<\h2C62, \h2C62, 1, -10743>>,
       <<\h2C63, \h2C63, 1, -3814>>, <<\h2C64, \h2C64, 1, -10727>>,
       <<\h2C67, \h2C6B, 2, 1>>, <<\h2C6D, \h2C6D, 1, -10780>>,
       <<\h2C6E, \h2C6E, 1, -10749>>, <<\h2C6F, \h2C6F, 1, -10783>>,
       <<\h2C70, \h2C70, 1, -10782>>, <<\h2C72, \h2C72, 1, 1>>,
       <<\h2C75, \h2C75, 1, 1>>, <<\h2C7E, \h2C7F, 1, -10815>>,
       <<\h2C80, \h2CE2, 2, 1>>, <<\h2CEB, \h2CED, 2, 1>>,
       <<\h2CF2, \h2CF2, 1, 1>>, <<\hA640, \hA66C, 2, 1>>,
       <<\hA680, \hA69A, 2, 1>>, <<\hA722, \hA72E, 2, 1>>,
       <<\hA732, \hA76E, 2, 1>>, <<\hA779, \hA77B, 2, 1>>,
       <<\hA77D, \hA77D, 1, -35332>>, <<\hA77E, \hA786, 2, 1>>,
       <<\hA78B, \hA78B, 1, 1>>, <<\hA78D, \hA78D, 1, -42280>>,
       <<\hA790, \hA792, 2, 1>>, <<\hA796, \hA7A8, 2, 1>>,
       <<\hA7AA, \hA7AA, 1, -42308>>, <<\hA7AB, \hA7AB, 1, -42319>>,
       <<\hA7AC, \hA7AC, 1, -42315>>, <<\hA7AD, \hA7AD, 1, -42305>>,
       <<\hA7AE, \hA7AE, 1, -42308>>, <<\hA7B0, \hA7B0, 1, -42258>>,
       <<\hA7B1, \hA7B1, 1, -42282>>, <<\hA7B2, \hA7B2, 1, -42261>>,
       <<\hA7B3, \hA7B3, 1, 928>>, <<\hA7B4, \hA7C2, 2, 1>>,
       <<\hA7C4, \hA7C4, 1, -48>>, <<\hA7C5, \hA7C5, 1, -42307>>,
       <<\hA7C6, \hA7C6, 1, -35384>>, <<\hA7C7, \hA7C9, 2, 1>>,
       <<\hA7D0, \hA7D0, 1, 1>>, <<\hA7D6, \hA7D8, 2, 1>>,
       <<\hA7F5, \hA7F5, 1, 1>>, <<\hFF21, \hFF3A, 1, 32>>,
       <<\h10400, \h10427, 1, 40>>, <<\h104B0, \h104D3, 1, 40>>,
       <<\h10570, \h1057A, 1, 39>>, <<\h1057C, \h1058A, 1, 39>>,
       <<\h1058C, \h10592, 1, 39>>, <<\h10594, \h10595, 1, 39>>,
       <<\h10C80, \h10CB2, 1, 64>>, <<\h118A0, \h118BF, 1, 32>>,
       <<\h16E40, \h16E5F, 1, 32>>, <<\h1E900, \h1E921, 1, 34>> >>

LowerIn(c, k) ==
    IF k /= 0 /\ (c - LowerRanges[k][1]) % LowerRanges[k][3] = 0
    THEN c + LowerRanges[k][4]
    ELSE c

\* the one character that is the lower-case form of c
SimpleLower(c) == LowerIn(c, RangeOf(LowerRanges, c, 1, Len(LowerRanges)))

\* str.lower of one character other than the capital sigma: U+0130 gives two
\* characters, "i" and U+0307
LowerChar(c) == IF c = \h0130 THEN <<Code("i"), \h0307>> ELSE <<SimpleLower(c)>>

\* the lower-case characters IGNORECASE takes for another one, <<character,
\* the other>>
FoldPairs ==
    << <<\h0131, \h0069>>, <<\h017F, \h0073>>, <<\h03B9, \h0345>>,
       <<\h03BC, \h00B5>>, <<\h03C3, \h03C2>>, <<\h03D0, \h03B2>>,
       <<\h03D1, \h03B8>>, <<\h03D5, \h03C6>>, <<\h03D6, \h03C0>>,
       <<\h03F0, \h03BA>>, <<\h03F1, \h03C1>>, <<\h03F5, \h03B5>>,
       <<\h1C80, \h0432>>, <<\h1C81, \h0434>>, <<\h1C82, \h043E>>,
       <<\h1C83, \h0441>>, <<\h1C84, \h0442>>, <<\h1C85, \h0442>>,
       <<\h1C86, \h044A>>, <<\h1C87, \h0463>>, <<\h1E9B, \h1E61>>,
       <<\h1FBE, \h0345>>, <<\h1FD3, \h0390>>, <<\h1FE3, \h03B0>>,
       <<\hA64B, \h1C88>>, <<\hFB06, \hFB05>> >>

FoldLower(c) ==
    IF \E k \in 1..Len(FoldPairs) : FoldPairs[k][1] = c
    THEN FoldPairs[CHOOSE k \in 1..Len(FoldPairs) : FoldPairs[k][1] = c][2]
    ELSE c

\* two characters match under IGNORECASE exactly when FoldChar gives the same
FoldChar(c) == FoldLower(SimpleLower(c))

\* the cased characters, <<first, last>>
CasedRanges ==
    << <<\h0041, \h005A>>, <<\h0061, \h007A>>, <<\h00AA, \h00AA>>,
       <<\h00B5, \h00B5>>, <<\h00BA, \h00BA>>, <<\h00C0, \h00D6>>,
       <<\h00D8, \h00F6>>, <<\h00F8, \h01BA>>, <<\h01BC, \h01BF>>,
       <<\h01C4, \h0293>>, <<\h0295, \h02B8>>, <<\h02C0, \h02C1>>,
       <<\h02E0, \h02E4>>, <<\h0345, \h0345>>, <<\h0370, \h0373>>,
       <<\h0376, \h0377>>, <<\h037A, \h037D>>, <<\h037F, \h037F>>,
       <<\h0386, \h0386>>, <<\h0388, \h038A>>, <<\h038C, \h038C>>,
       <<\h038E, \h03A1>>, <<\h03A3, \h03F5>>, <<\h03F7, \h0481>>,
       <<\h048A, \h052F>>, <<\h0531, \h0556>>, <<\h0560, \h0588>>,
       <<\h10A0, \h10C5>>, <<\h10C7, \h10C7>>, <<\h10CD, \h10CD>>,
       <<\h10D0, \h10FA>>, <<\h10FD, \h10FF>>, <<\h13A0, \h13F5>>,
       <<\h13F8, \h13FD>>, <<\h1C80, \h1C88>>, <<\h1C90, \h1CBA>>,
       <<\h1CBD, \h1CBF>>, <<\h1D00, \h1DBF>>, <<\h1E00, \h1F15>>,
       <<\h1F18, \h1F1D>>, <<\h1F20, \h1F45>>, <<\h1F48, \h1F4D>>,
       <<\h1F50, \h1F57>>, <<\h1F59, \h1F59>>, <<\h1F5B, \h1F5B>>,
       <<\h1F5D, \h1F5D>>, <<\h1F5F, \h1F7D>>, <<\h1F80, \h1FB4>>,
       <<\h1FB6, \h1FBC>>, <<\h1FBE, \h1FBE>>, <<\h1FC2, \h1FC4>>,
       <<\h1FC6, \h1FCC>>, <<\h1FD0, \h1FD3>>, <<\h1FD6, \h1FDB>>,
       <<\h1FE0, \h1FEC>>, <<\h1FF2, \h1FF4>>, <<\h1FF6, \h1FFC>>,
       <<\h2071, \h2071>>, <<\h207F, \h207F>>, <<\h2090, \h209C>>,
       <<\h2102, \h2102>>, <<\h2107, \h2107>>, <<\h210A, \h2113>>,
       <<\h2115, \h2115>>, <<\h2119, \h211D>>, <<\h2124, \h2124>>,
       <<\h2126, \h2126>>, <<\h2128, \h2128>>, <<\h212A, \h212D>>,
       <<\h212F, \h2134>>, <<\h2139, \h2139>>, <<\h213C, \h213F>>,
       <<\h2145, \h2149>>, <<\h214E, \h214E>>, <<\h2160, \h217F>>,
       <<\h2183, \h2184>>, <<\h24B6, \h24E9>>, <<\h2C00, \h2CE4>>,
       <<\h2CEB, \h2CEE>>, <<\h2CF2, \h2CF3>>, <<\h2D00, \h2D25>>,
       <<\h2D27, \h2D27>>, <<\h2D2D, \h2D2D>>, <<\hA640, \hA66D>>,
       <<\hA680, \hA69D>>, <<\hA722, \hA787>>, <<\hA78B, \hA78E>>,
       <<\hA790, \hA7CA>>, <<\hA7D0, \hA7D1>>, <<\hA7D3, \hA7D3>>,
       <<\hA7D5, \hA7D9>>, <<\hA7F5, \hA7F6>>, <<\hA7F8, \hA7FA>>,
       <<\hAB30, \hAB5A>>, <<\hAB5C, \hAB68>>, <<\hAB70, \hABBF>>,
       <<\hFB00, \hFB06>>, <<\hFB13, \hFB17>>, <<\hFF21, \hFF3A>>,
       <<\hFF41, \hFF5A>>, <<\h10400, \h1044F>>, <<\h104B0, \h104D3>>,
       <<\h104D8, \h104FB>>, <<\h10570, \h1057A>>, <<\h1057C, \h1058A>>,
       <<\h1058C, \h10592>>, <<\h10594, \h10595>>, <<\h10597, \h105A1>>,
       <<\h105A3, \h105B1>>, <<\h105B3, \h105B9>>, <<\h105BB, \h105BC>>,
       <<\h10780, \h10780>>, <<\h10783, \h10785>>, <<\h10787, \h107B0>>,
       <<\h107B2, \h107BA>>, <<\h10C80, \h10CB2>>, <<\h10CC0, \h10CF2>>,
       <<\h118A0, \h118DF>>, <<\h16E40, \h16E7F>>, <<\h1D400, \h1D454>>,
       <<\h1D456, \h1D49C>>, <<\h1D49E, \h1D49F>>, <<\h1D4A2, \h1D4A2>>,
       <<\h1D4A5, \h1D4A6>>, <<\h1D4A9, \h1D4AC>>, <<\h1D4AE, \h1D4B9>>,
       <<\h1D4BB, \h1D4BB>>, <<\h1D4BD, \h1D4C3>>, <<\h1D4C5, \h1D505>>,
       <<\h1D507, \h1D50A>>, <<\h1D50D, \h1D514>>, <<\h1D516, \h1D51C>>,
       <<\h1D51E, \h1D539>>, <<\h1D53B, \h1D53E>>, <<\h1D540, \h1D544>>,
       <<\h1D546, \h1D546>>, <<\h1D54A, \h1D550>>, <<\h1D552, \h1D6A5>>,
       <<\h1D6A8, \h1D6C0>>, <<\h1D6C2, \h1D6DA>>, <<\h1D6DC, \h1D6FA>>,
       <<\h1D6FC, \h1D714>>, <<\h1D716, \h1D734>>, <<\h1D736, \h1D74E>>,
       <<\h1D750, \h1D76E>>, <<\h1D770, \h1D788>>, <<\h1D78A, \h1D7A8>>,
       <<\h1D7AA, \h1D7C2>>, <<\h1D7C4, \h1D7CB>>, <<\h1DF00, \h1DF09>>,
       <<\h1DF0B, \h1DF1E>>, <<\h1E900, \h1E943>>, <<\h1F130, \h1F149>>,
       <<\h1F150, \h1F169>>, <<\h1F170, \h1F189>> >>

\* the case-ignorable characters, <<first, last>>
IgnorableRanges ==
    << <<\h0027, \h0027>>, <<\h002E, \h002E>>, <<\h003A, \h003A>>,
       <<\h005E, \h005E>>, <<\h0060, \h0060>>, <<\h00A8, \h00A8>>,
       <<\h00AD, \h00AD>>, <<\h00AF, \h00AF>>, <<\h00B4, \h00B4>>,
       <<\h00B7, \h00B8>>, <<\h02B0, \h036F>>, <<\h0374, \h0375>>,
       <<\h037A, \h037A>>, <<\h0384, \h0385>>, <<\h0387, \h0387>>,
       <<\h0483, \h0489>>, <<\h0559, \h0559>>, <<\h055F, \h055F>>,
       <<\h0591, \h05BD>>, <<\h05BF, \h05BF>>, <<\h05C1, \h05C2>>,
       <<\h05C4, \h05C5>>, <<\h05C7, \h05C7>>, <<\h05F4, \h05F4>>,
       <<\h0600, \h0605>>, <<\h0610, \h061A>>, <<\h061C, \h061C>>,
       <<\h0640, \h0640>>, <<\h064B, \h065F>>, <<\h0670, \h0670>>,
       <<\h06D6, \h06DD>>, <<\h06DF, \h06E8>>, <<\h06EA, \h06ED>>,
       <<\h070F, \h070F>>, <<\h0711, \h0711>>, <<\h0730, \h074A>>,
       <<\h07A6, \h07B0>>, <<\h07EB, \h07F5>>, <<\h07FA, \h07FA>>,
       <<\h07FD, \h07FD>>, <<\h0816, \h082D>>, <<\h0859, \h085B>>,
       <<\h0888, \h0888>>, <<\h0890, \h0891>>, <<\h0898, \h089F>>,
       <<\h08C9, \h0902>>, <<\h093A, \h093A>>, <<\h093C, \h093C>>,
       <<\h0941, \h0948>>, <<\h094D, \h094D>>, <<\h0951, \h0957>>,
       <<\h0962, \h0963>>, <<\h0971, \h0971>>, <<\h0981, \h0981>>,
       <<\h09BC, \h09BC>>, <<\h09C1, \h09C4>>, <<\h09CD, \h09CD>>,
       <<\h09E2, \h09E3>>, <<\h09FE, \h09FE>>, <<\h0A01, \h0A02>>,
       <<\h0A3C, \h0A3C>>, <<\h0A41, \h0A42>>, <<\h0A47, \h0A48>>,
       <<\h0A4B, \h0A4D>>, <<\h0A51, \h0A51>>, <<\h0A70, \h0A71>>,
       <<\h0A75, \h0A75>>, <<\h0A81, \h0A82>>, <<\h0ABC, \h0ABC>>,
       <<\h0AC1, \h0AC5>>, <<\h0AC7, \h0AC8>>, <<\h0ACD, \h0ACD>>,
       <<\h0AE2, \h0AE3>>, <<\h0AFA, \h0AFF>>, <<\h0B01, \h0B01>>,
       <<\h0B3C, \h0B3C>>, <<\h0B3F, \h0B3F>>, <<\h0B41, \h0B44>>,
       <<\h0B4D, \h0B4D>>, <<\h0B55, \h0B56>>, <<\h0B62, \h0B63>>,
       <<\h0B82, \h0B82>>, <<\h0BC0, \h0BC0>>, <<\h0BCD, \h0BCD>>,
       <<\h0C00, \h0C00>>, <<\h0C04, \h0C04>>, <<\h0C3C, \h0C3C>>,
       <<\h0C3E, \h0C40>>, <<\h0C46, \h0C48>>, <<\h0C4A, \h0C4D>>,
       <<\h0C55, \h0C56>>, <<\h0C62, \h0C63>>, <<\h0C81, \h0C81>>,
       <<\h0CBC, \h0CBC>>, <<\h0CBF, \h0CBF>>, <<\h0CC6, \h0CC6>>,
       <<\h0CCC, \h0CCD>>, <<\h0CE2, \h0CE3>>, <<\h0D00, \h0D01>>,
       <<\h0D3B, \h0D3C>>, <<\h0D41, \h0D44>>, <<\h0D4D, \h0D4D>>,
       <<\h0D62, \h0D63>>, <<\h0D81, \h0D81>>, <<\h0DCA, \h0DCA>>,
       <<\h0DD2, \h0DD4>>, <<\h0DD6, \h0DD6>>, <<\h0E31, \h0E31>>,
       <<\h0E34, \h0E3A>>, <<\h0E46, \h0E4E>>, <<\h0EB1, \h0EB1>>,
       <<\h0EB4, \h0EBC>>, <<\h0EC6, \h0EC6>>, <<\h0EC8, \h0ECD>>,
       <<\h0F18, \h0F19>>, <<\h0F35, \h0F35>>, <<\h0F37, \h0F37>>,
       <<\h0F39, \h0F39>>, <<\h0F71, \h0F7E>>, <<\h0F80, \h0F84>>,
       <<\h0F86, \h0F87>>, <<\h0F8D, \h0F97>>, <<\h0F99, \h0FBC>>,
       <<\h0FC6, \h0FC6>>, <<\h102D, \h1030>>, <<\h1032, \h1037>>,
       <<\h1039, \h103A>>, <<\h103D, \h103E>>, <<\h1058, \h1059>>,
       <<\h105E, \h1060>>, <<\h1071, \h1074>>, <<\h1082, \h1082>>,
       <<\h1085, \h1086>>, <<\h108D, \h108D>>, <<\h109D, \h109D>>,
       <<\h10FC, \h10FC>>, <<\h135D, \h135F>>, <<\h1712, \h1714>>,
       <<\h1732, \h1733>>, <<\h1752, \h1753>>, <<\h1772, \h1773>>,
       <<\h17B4, \h17B5>>, <<\h17B7, \h17BD>>, <<\h17C6, \h17C6>>,
       <<\h17C9, \h17D3>>, <<\h17D7, \h17D7>>, <<\h17DD, \h17DD>>,
       <<\h180B, \h180F>>, <<\h1843, \h1843>>, <<\h1885, \h1886>>,
       <<\h18A9, \h18A9>>, <<\h1920, \h1922>>, <<\h1927, \h1928>>,
       <<\h1932, \h1932>>, <<\h1939, \h193B>>, <<\h1A17, \h1A18>>,
       <<\h1A1B, \h1A1B>>, <<\h1A56, \h1A56>>, <<\h1A58, \h1A5E>>,
       <<\h1A60, \h1A60>>, <<\h1A62, \h1A62>>, <<\h1A65, \h1A6C>>,
       <<\h1A73, \h1A7C>>, <<\h1A7F, \h1A7F>>, <<\h1AA7, \h1AA7>>,
       <<\h1AB0, \h1ACE>>, <<\h1B00, \h1B03>>, <<\h1B34, \h1B34>>,
       <<\h1B36, \h1B3A>>, <<\h1B3C, \h1B3C>>, <<\h1B42, \h1B42>>,
       <<\h1B6B, \h1B73>>, <<\h1B80, \h1B81>>, <<\h1BA2, \h1BA5>>,
       <<\h1BA8, \h1BA9>>, <<\h1BAB, \h1BAD>>, <<\h1BE6, \h1BE6>>,
       <<\h1BE8, \h1BE9>>, <<\h1BED, \h1BED>>, <<\h1BEF, \h1BF1>>,
       <<\h1C2C, \h1C33>>, <<\h1C36, \h1C37>>, <<\h1C78, \h1C7D>>,
       <<\h1CD0, \h1CD2>>, <<\h1CD4, \h1CE0>>, <<\h1CE2, \h1CE8>>,
       <<\h1CED, \h1CED>>, <<\h1CF4, \h1CF4>>, <<\h1CF8, \h1CF9>>,
       <<\h1D2C, \h1D6A>>, <<\h1D78, \h1D78>>, <<\h1D9B, \h1DFF>>,
       <<\h1FBD, \h1FBD>>, <<\h1FBF, \h1FC1>>, <<\h1FCD, \h1FCF>>,
       <<\h1FDD, \h1FDF>>, <<\h1FED, \h1FEF>>, <<\h1FFD, \h1FFE>>,
       <<\h200B, \h200F>>, <<\h2018, \h2019>>, <<\h2024, \h2024>>,
       <<\h2027, \h2027>>, <<\h202A, \h202E>>, <<\h2060, \h2064>>,
       <<\h2066, \h206F>>, <<\h2071, \h2071>>, <<\h207F, \h207F>>,
       <<\h2090, \h209C>>, <<\h20D0, \h20F0>>, <<\h2C7C, \h2C7D>>,
       <<\h2CEF, \h2CF1>>, <<\h2D6F, \h2D6F>>, <<\h2D7F, \h2D7F>>,
       <<\h2DE0, \h2DFF>>, <<\h2E2F, \h2E2F>>, <<\h3005, \h3005>>,
       <<\h302A, \h302D>>, <<\h3031, \h3035>>, <<\h303B, \h303B>>,
       <<\h3099, \h309E>>, <<\h30FC, \h30FE>>, <<\hA015, \hA015>>,
       <<\hA4F8, \hA4FD>>, <<\hA60C, \hA60C>>, <<\hA66F, \hA672>>,
       <<\hA674, \hA67D>>, <<\hA67F, \hA67F>>, <<\hA69C, \hA69F>>,
       <<\hA6F0, \hA6F1>>, <<\hA700, \hA721>>, <<\hA770, \hA770>>,
       <<\hA788, \hA78A>>, <<\hA7F2, \hA7F4>>, <<\hA7F8, \hA7F9>>,
       <<\hA802, \hA802>>, <<\hA806, \hA806>>, <<\hA80B, \hA80B>>,
       <<\hA825, \hA826>>, <<\hA82C, \hA82C>>, <<\hA8C4, \hA8C5>>,
       <<\hA8E0, \hA8F1>>, <<\hA8FF, \hA8FF>>, <<\hA926, \hA92D>>,
       <<\hA947, \hA951>>, <<\hA980, \hA982>>, <<\hA9B3, \hA9B3>>,
       <<\hA9B6, \hA9B9>>, <<\hA9BC, \hA9BD>>, <<\hA9CF, \hA9CF>>,
       <<\hA9E5, \hA9E6>>, <<\hAA29, \hAA2E>>, <<\hAA31, \hAA32>>,
       <<\hAA35, \hAA36>>, <<\hAA43, \hAA43>>, <<\hAA4C, \hAA4C>>,
       <<\hAA70, \hAA70>>, <<\hAA7C, \hAA7C>>, <<\hAAB0, \hAAB0>>,
       <<\hAAB2, \hAAB4>>, <<\hAAB7, \hAAB8>>, <<\hAABE, \hAABF>>,
       <<\hAAC1, \hAAC1>>, <<\hAADD, \hAADD>>, <<\hAAEC, \hAAED>>,
       <<\hAAF3, \hAAF4>>, <<\hAAF6, \hAAF6>>, <<\hAB5B, \hAB5F>>,
       <<\hAB69, \hAB6B>>, <<\hABE5, \hABE5>>, <<\hABE8, \hABE8>>,
       <<\hABED, \hABED>>, <<\hFB1E, \hFB1E>>, <<\hFBB2, \hFBC2>>,
       <<\hFE00, \hFE0F>>, <<\hFE13, \hFE13>>, <<\hFE20, \hFE2F>>,
       <<\hFE52, \hFE52>>, <<\hFE55, \hFE55>>, <<\hFEFF, \hFEFF>>,
       <<\hFF07, \hFF07>>, <<\hFF0E, \hFF0E>>, <<\hFF1A, \hFF1A>>,
       <<\hFF3E, \hFF3E>>, <<\hFF40, \hFF40>>, <<\hFF70, \hFF70>>,
       <<\hFF9E, \hFF9F>>, <<\hFFE3, \hFFE3>>, <<\hFFF9, \hFFFB>>,
       <<\h101FD, \h101FD>>, <<\h102E0, \h102E0>>, <<\h10376, \h1037A>>,
       <<\h10780, \h10785>>, <<\h10787, \h107B0>>, <<\h107B2, \h107BA>>,
       <<\h10A01, \h10A03>>, <<\h10A05, \h10A06>>, <<\h10A0C, \h10A0F>>,
       <<\h10A38, \h10A3A>>, <<\h10A3F, \h10A3F>>, <<\h10AE5, \h10AE6>>,
       <<\h10D24, \h10D27>>, <<\h10EAB, \h10EAC>>, <<\h10F46, \h10F50>>,
       <<\h10F82, \h10F85>>, <<\h11001, \h11001>>, <<\h11038, \h11046>>,
       <<\h11070, \h11070>>, <<\h11073, \h11074>>, <<\h1107F, \h11081>>,
       <<\h110B3, \h110B6>>, <<\h110B9, \h110BA>>, <<\h110BD, \h110BD>>,
       <<\h110C2, \h110C2>>, <<\h110CD, \h110CD>>, <<\h11100, \h11102>>,
       <<\h11127, \h1112B>>, <<\h1112D, \h11134>>, <<\h11173, \h11173>>,
       <<\h11180, \h11181>>, <<\h111B6, \h111BE>>, <<\h111C9, \h111CC>>,
       <<\h111CF, \h111CF>>, <<\h1122F, \h11231>>, <<\h11234, \h11234>>,
       <<\h11236, \h11237>>, <<\h1123E, \h1123E>>, <<\h112DF, \h112DF>>,
       <<\h112E3, \h112EA>>, <<\h11300, \h11301>>, <<\h1133B, \h1133C>>,
       <<\h11340, \h11340>>, <<\h11366, \h1136C>>, <<\h11370, \h11374>>,
       <<\h11438, \h1143F>>, <<\h11442, \h11444>>, <<\h11446, \h11446>>,
       <<\h1145E, \h1145E>>, <<\h114B3, \h114B8>>, <<\h114BA, \h114BA>>,
       <<\h114BF, \h114C0>>, <<\h114C2, \h114C3>>, <<\h115B2, \h115B5>>,
       <<\h115BC, \h115BD>>, <<\h115BF, \h115C0>>, <<\h115DC, \h115DD>>,
       <<\h11633, \h1163A>>, <<\h1163D, \h1163D>>, <<\h1163F, \h11640>>,
       <<\h116AB, \h116AB>>, <<\h116AD, \h116AD>>, <<\h116B0, \h116B5>>,
       <<\h116B7, \h116B7>>, <<\h1171D, \h1171F>>, <<\h11722, \h11725>>,
       <<\h11727, \h1172B>>, <<\h1182F, \h11837>>, <<\h11839, \h1183A>>,
       <<\h1193B, \h1193C>>, <<\h1193E, \h1193E>>, <<\h11943, \h11943>>,
       <<\h119D4, \h119D7>>, <<\h119DA, \h119DB>>, <<\h119E0, \h119E0>>,
       <<\h11A01, \h11A0A>>, <<\h11A33, \h11A38>>, <<\h11A3B, \h11A3E>>,
       <<\h11A47, \h11A47>>, <<\h11A51, \h11A56>>, <<\h11A59, \h11A5B>>,
       <<\h11A8A, \h11A96>>, <<\h11A98, \h11A99>>, <<\h11C30, \h11C36>>,
       <<\h11C38, \h11C3D>>, <<\h11C3F, \h11C3F>>, <<\h11C92, \h11CA7>>,
       <<\h11CAA, \h11CB0>>, <<\h11CB2, \h11CB3>>, <<\h11CB5, \h11CB6>>,
       <<\h11D31, \h11D36>>, <<\h11D3A, \h11D3A>>, <<\h11D3C, \h11D3D>>,
       <<\h11D3F, \h11D45>>, <<\h11D47, \h11D47>>, <<\h11D90, \h11D91>>,
       <<\h11D95, \h11D95>>, <<\h11D97, \h11D97>>, <<\h11EF3, \h11EF4>>,
       <<\h13430, \h13438>>, <<\h16AF0, \h16AF4>>, <<\h16B30, \h16B36>>,
       <<\h16B40, \h16B43>>, <<\h16F4F, \h16F4F>>, <<\h16F8F, \h16F9F>>,
       <<\h16FE0, \h16FE1>>, <<\h16FE3, \h16FE4>>, <<\h1AFF0, \h1AFF3>>,
       <<\h1AFF5, \h1AFFB>>, <<\h1AFFD, \h1AFFE>>, <<\h1BC9D, \h1BC9E>>,
       <<\h1BCA0, \h1BCA3>>, <<\h1CF00, \h1CF2D>>, <<\h1CF30, \h1CF46>>,
       <<\h1D167, \h1D169>>, <<\h1D173, \h1D182>>, <<\h1D185, \h1D18B>>,
       <<\h1D1AA, \h1D1AD>>, <<\h1D242, \h1D244>>, <<\h1DA00, \h1DA36>>,
       <<\h1DA3B, \h1DA6C>>, <<\h1DA75, \h1DA75>>, <<\h1DA84, \h1DA84>>,
       <<\h1DA9B, \h1DA9F>>, <<\h1DAA1, \h1DAAF>>, <<\h1E000, \h1E006>>,
       <<\h1E008, \h1E018>>, <<\h1E01B, \h1E021>>, <<\h1E023, \h1E024>>,
       <<\h1E026, \h1E02A>>, <<\h1E130, \h1E13D>>, <<\h1E2AE, \h1E2AE>>,
       <<\h1E2EC, \h1E2EF>>, <<\h1E8D0, \h1E8D6>>, <<\h1E944, \h1E94B>>,
       <<\h1F3FB, \h1F3FF>>, <<\hE0001, \hE0001>>, <<\hE0020, \hE007F>>,
       <<\hE0100, \hE01EF>> >>

\* the first position from j on, in direction d, that holds no case-ignorable
\* character
RECURSIVE SkipIgnorable(_, _, _)
SkipIgnorable(text, j, d) ==
    IF /\ j >= 1 /\ j <= Len(text)
       /\ RangeOf(IgnorableRanges, text[j], 1, Len(IgnorableRanges)) /= 0
    THEN SkipIgnorable(text, j + d, d)
    ELSE j

CasedAt(text, j) ==
    /\ j >= 1 /\ j <= Len(text)
    /\ RangeOf(CasedRanges, text[j], 1, Len(CasedRanges)) /= 0

\* the capital sigma at k is final: a cased character stands before it and
\* none after it, case-ignorable characters skipped
FinalSigma(text, k) ==
    /\ CasedAt(text, SkipIgnorable(text, k - 1, -1))
    /\ ~CasedAt(text, SkipIgnorable(text, k + 1, 1))

RECURSIVE LowerFrom(_, _)
LowerFrom(text, k) ==
    IF k > Len(text) THEN <<>>
    ELSE (IF text[k] /= \h03A3 THEN LowerChar(text[k])
          ELSE IF FinalSigma(text, k) THEN <<\h03C2>> ELSE <<\h03C3>>)
         \o LowerFrom(text, k + 1)

\* str.lower
Lower(text) == LowerFrom(text, 1)

(***************************************************************************)
(* Text                                                                    *)
(***************************************************************************)
\* sub in text
Contains(text, sub) ==
    \E i \in 1..(Len(text) - Len(sub) + 1) :
        \A k \in 1..Len(sub) : text[i + k - 1] = sub[k]

\* text without the white space it begins with
LStrip(text) ==
    IF \A k \in 1..Len(text) : IsSpace(text[k]) THEN <<>>
    ELSE SubSeq(text, CHOOSE k \in 1..Len(text) :
                          ~IsSpace(text[k]) /\ \A j \in 1..(k - 1) : IsSpace(text[j]),
                Len(text))

\* text without the white space it ends with
RStrip(text) ==
    IF \A k \in 1..Len(text) : IsSpace(text[k]) THEN <<>>
    ELSE SubSeq(text, 1, CHOOSE k \in 1..Len(text) :
                             ~IsSpace(text[k]) /\ \A j \in (k + 1)..Len(text) : IsSpace(text[j]))

\* str.strip
Strip(text) == RStrip(LStrip(text))

\* sep.join(parts)
RECURSIVE Join(_, _)
Join(sep, parts) ==
    IF parts = <<>> THEN <<>>
    ELSE IF Len(parts) = 1 THEN parts[1]
    ELSE parts[1] \o sep \o Join(sep, Tail(parts))

\* the last position of the characters of the set S that text holds from i on
\* without a break (i - 1 when text[i] is not of them)
RunEnd(text, i, S) ==
    IF \A k \in i..Len(text) : text[k] \in S THEN Len(text)
    ELSE (CHOOSE k \in i..Len(text) :
              text[k] \notin S /\ \A j \in i..(k - 1) : text[j] \in S) - 1

\* \d+ and \d* from i: the digits are taken as far as they go
DigitRunEnd(text, i) == RunEnd(text, i, DigitChars)

\* \s* from i
SpaceRunEnd(text, i) == RunEnd(text, i, SpaceChars)

\* the least member of a set of positions, 0 when it is empty
MinOrZero(S) == IF S = {} THEN 0 ELSE CHOOSE i \in S : \A j \in S : i <= j

(***************************************************************************)
(* Floats.  A float is a double of IEEE 754 that is not negative:          *)
(* Double(m, e) is m * 2^e, with 2^52 <= m < 2^53 and -1074 <= e <= 971,   *)
(* or with m < 2^52 and e = -1074 (zero and the subnormal numbers); Inf is *)
(* float("inf").  A whole number of any size is the sequence of its        *)
(* decimal digits without leading zeros, zero being <<>>.  float(text) and *)
(* the operations * and / give the double nearest to the exact result,     *)
(* ties to the even one.                                                   *)
(***************************************************************************)
Double(m, e) == [mant |-> m, exp |-> e]

TwoTo52 == <<4, 5, 0, 3, 5, 9, 9, 6, 2, 7, 3, 7, 0, 4, 9, 6>>

Zero == Double(<<>>, -1074)

Inf == Double(TwoTo52, 972)

\* ds without its leading zeros
DropLeadingZeros(ds) ==
    IF \A k \in 1..Len(ds) : ds[k] = 0 THEN <<>>
    ELSE SubSeq(ds, CHOOSE k \in 1..Len(ds) :
                        ds[k] /= 0 /\ \A j \in 1..(k - 1) : ds[j] = 0,
                Len(ds))

\* what the doubling of the digit at k carries to the digit before it; past
\* the last digit, the carry that comes in
CarryAt(ds, k, carry) ==
    IF k > Len(ds) THEN carry ELSE IF ds[k] >= 5 THEN 1 ELSE 0

\* 2 * ds + carry
Twice(ds, carry) ==
    DropLeadingZeros(<<CarryAt(ds, 1, carry)>>
                     \o [k \in 1..Len(ds) |->
                            ((2 * ds[k]) % 10) + CarryAt(ds, k + 1, carry)])

\* ds \div 2
Half(ds) ==
    DropLeadingZeros(<<0>> \o [k \in 1..Len(ds) |->
        (ds[k] + (IF k > 1 /\ ds[k - 1] % 2 = 1 THEN 10 ELSE 0)) \div 2])

\* ds * b^n, for b = 2 and for b = 5 (ten times the half)
RECURSIVE TimesPower(_, _, _)
TimesPower(ds, b, n) ==
    IF n <= 0 \/ ds = <<>> THEN ds
    ELSE IF n = 1 THEN (IF b = 2 THEN Twice(ds, 0) ELSE Half(ds \o <<0>>))
    ELSE TimesPower(TimesPower(ds, b, n \div 2), b, n - n \div 2)

\* ds + 1
PlusOne(ds) ==
    DropLeadingZeros(<<IF \A j \in 1..Len(ds) : ds[j] = 9 THEN 1 ELSE 0>>
                     \o [k \in 1..Len(ds) |->
                            IF \A j \in (k + 1)..Len(ds) : ds[j] = 9
                            THEN (ds[k] + 1) % 10 ELSE ds[k]])

\* x > y for whole numbers
DigitsGreater(x, y) ==
    \/ Len(x) > Len(y)
    \/ /\ Len(x) = Len(y)
       /\ \E k \in 1..Len(x) : x[k] > y[k] /\ \A j \in 1..(k - 1) : x[j] = y[j]

\* the digits of x after the k-th make a lesser number than those of y
Borrows(x, y, k) ==
    \E j \in (k + 1)..Len(x) : x[j] < y[j] /\ \A i \in (k + 1)..(j - 1) : x[i] = y[i]

\* x - y for x >= y of the same length
MinusPadded(x, y) ==
    <<0>> \o [k \in 1..Len(x) |->
                 (x[k] - y[k] - (IF Borrows(x, y, k) THEN 1 ELSE 0) + 10) % 10]

\* x - y for x >= y
Minus(x, y) ==
    DropLeadingZeros(MinusPadded(x, [k \in 1..(Len(x) - Len(y)) |-> 0] \o y))

\* num / den * 2^e written with 1 <= num / den < 2; an exponent that has
\* left the range of the doubles is not followed further
RECURSIVE Scale(_, _, _)
Scale(num, den, e) ==
    IF DigitsGreater(den, num)
    THEN IF e <= -1075 THEN [num |-> num, den |-> den, e |-> -1076]
         ELSE Scale(Twice(num, 0), den, e - 1)
    ELSE IF ~DigitsGreater(Twice(den, 0), num)
    THEN IF e >= 1023 THEN [num |-> num, den |-> den, e |-> 1024]
         ELSE Scale(num, Twice(den, 0), e + 1)
    ELSE [num |-> num, den |-> den, e |-> e]

\* one more binary digit of the quotient b.q, b.rem being twice what is left
\* to divide
NextBit(b, den) ==
    IF DigitsGreater(den, b.rem)
    THEN [q |-> Twice(b.q, 0), rem |-> Twice(b.rem, 0)]
    ELSE [q |-> Twice(b.q, 1), rem |-> Twice(Minus(b.rem, den), 0)]

\* p + 1 more binary digits
RECURSIVE Bits(_, _, _)
Bits(b, den, p) ==
    IF p < 0 THEN b
    ELSE IF b.rem = <<>> THEN [q |-> TimesPower(b.q, 2, p + 1), rem |-> <<>>]
    ELSE Bits(NextBit(b, den), den, p - 1)

\* the quotient rounded to the nearest, a tie to the even one
Rounded(b, den) ==
    IF \/ DigitsGreater(b.rem, den)
       \/ b.rem = den /\ b.q /= <<>> /\ b.q[Len(b.q)] % 2 = 1
    THEN PlusOne(b.q)
    ELSE b.q

\* the double with the significand q for a number scaled to the exponent e
Finite(q, e) ==
    IF q = Twice(TwoTo52, 0) THEN (IF e = 1023 THEN Inf ELSE Double(TwoTo52, e - 51))
    ELSE Double(q, IF e >= -1022 THEN e - 52 ELSE -1074)

\* the double nearest to a scaled number: 53 binary digits, fewer below 2^-1022
Nearest(s) ==
    IF s.e > 1023 THEN Inf
    ELSE IF s.e < -1075 THEN Zero
    ELSE Finite(Rounded(Bits([q |-> <<>>, rem |-> s.num], s.den,
                             IF s.e >= -1022 THEN 52 ELSE s.e + 1074),
                        s.den), s.e)

\* the scaling begun from num / den * 2^e = (num / 2^by) / (den * 2^by) * 2^(e + by)
\* with 2^by or, for by < 0, 2^(-by) taken out first
ScaleFrom(num, den, e, by) ==
    Scale(TimesPower(num, 2, -by), TimesPower(den, 2, by), e + by)

\* the double nearest to num / den * 2^e
Float(num, den, e) ==
    IF num = <<>> THEN Zero
    ELSE Nearest(ScaleFrom(num, den, e, ((Len(num) - Len(den)) * 33) \div 10))

\* v * 8
FloatTimes8(v) ==
    IF v = Inf THEN Inf ELSE Float(TimesPower(v.mant, 2, 3), <<1>>, v.exp)

\* v * 1000
FloatTimes1000(v) ==
    IF v = Inf THEN Inf
    ELSE Float(IF v.mant = <<>> THEN <<>> ELSE v.mant \o <<0, 0, 0>>, <<1>>, v.exp)

\* v / 1000
FloatOver1000(v) ==
    IF v = Inf THEN Inf ELSE Float(v.mant, <<1, 0, 0, 0>>, v.exp)

\* a > b
FloatGreater(a, b) ==
    \/ a.exp > b.exp
    \/ a.exp = b.exp /\ DigitsGreater(a.mant, b.mant)

\* int(digits), digits of any script
RECURSIVE DigitsValue(_)
DigitsValue(digits) ==
    IF digits = <<>> THEN 0
    ELSE DigitsValue(SubSeq(digits, 1, Len(digits) - 1)) * 10
         + DigitVal(digits[Len(digits)])

DigitVals(digits) == [k \in 1..Len(digits) |-> DigitVal(digits[k])]

\* the float of the number num, whose integer digits end at e: all its
\* digits over 10 to the number of digits that follow the "."
FloatParts(num, e) ==
    Float(DropLeadingZeros(DigitVals(SelectSeq(num, IsDigit))),
          <<1>> \o [k \in 1..(IF e < Len(num) THEN Len(num) - e - 1 ELSE 0) |-> 0],
          0)

\* float(num) for num matching \d+(?:\.\d+)?
FloatOf(num) == FloatParts(num, DigitRunEnd(num, 1))

(***************************************************************************)
(* _parse_speed_to_mbps                                                    *)
(***************************************************************************)
\* the alternation GB/s|MB/s|KB/s|Gbps|Mbps|Kbps, in its order
UnitPatterns ==
    << Text(<<"G", "B", "/", "s">>), Text(<<"M", "B", "/", "s">>), Text(<<"K", "B", "/", "s">>),
       Text(<<"G", "b", "p", "s">>), Text(<<"M", "b", "p", "s">>), Text(<<"K", "b", "p", "s">>) >>

\* one alternative of the unit group matches at u, ignoring case
UnitAt(text, u) ==
    /\ u + 3 <= Len(text)
    /\ \E p \in 1..Len(UnitPatterns) :
           \A k \in 1..4 : FoldChar(text[u + k - 1]) = FoldChar(UnitPatterns[p][k])

NoMatch == [found |-> FALSE, numFrom |-> 0, numTo |-> 0, unitFrom |-> 0]

\* (unit) at u, after a number from i to e
SpeedUnit(text, i, e, u) ==
    IF UnitAt(text, u)
    THEN [found |-> TRUE, numFrom |-> i, numTo |-> e, unitFrom |-> u]
    ELSE NoMatch

\* \s*(unit) after a number from i to e
SpeedTail(text, i, e) == SpeedUnit(text, i, e, SpaceRunEnd(text, e + 1) + 1)

Dot == Code(".")

\* (?:\.\d+)? after the digits that end at e1
HasFraction(text, e1) ==
    /\ e1 + 2 <= Len(text)
    /\ text[e1 + 1] = Dot
    /\ IsDigit(text[e1 + 2])

OrElse(first, second) == IF first.found THEN first ELSE second

\* the number with its fraction is tried first, then the number without it
SpeedNumber(text, i, e1) ==
    IF e1 < i THEN NoMatch
    ELSE IF HasFraction(text, e1)
         THEN OrElse(SpeedTail(text, i, DigitRunEnd(text, e1 + 2)),
                     SpeedTail(text, i, e1))
    ELSE SpeedTail(text, i, e1)

\* (\d+(?:\.\d+)?)\s*(unit) anchored at i
SpeedMatchAt(text, i) == SpeedNumber(text, i, DigitRunEnd(text, i))

SpeedMatchOrNone(text, i) == IF i = 0 THEN NoMatch ELSE SpeedMatchAt(text, i)

\* re.search: the match at the leftmost position that has one
SpeedSearch(text) ==
    SpeedMatchOrNone(text, MinOrZero({i \in 1..Len(text) : SpeedMatchAt(text, i).found}))

NoneParsed == [ok |-> FALSE, mbps |-> Zero, display |-> <<>>]

Parsed(mbps, display) == [ok |-> TRUE, mbps |-> mbps, display |-> display]

\* the chain of tests on unit = m.group(2).lower()
ConvertUnit(value, unit, display) ==
    IF unit = Text(<<"g", "b", "/", "s">>)
    THEN Parsed(FloatTimes1000(FloatTimes8(value)), display)
    ELSE IF unit = Text(<<"m", "b", "/", "s">>) THEN Parsed(FloatTimes8(value), display)
    ELSE IF unit = Text(<<"k", "b", "/", "s">>)
    THEN Parsed(FloatOver1000(FloatTimes8(value)), display)
    ELSE IF unit = Text(<<"g", "b", "p", "s">>) THEN Parsed(FloatTimes1000(value), display)
    ELSE IF unit = Text(<<"m", "b", "p", "s">>) THEN Parsed(value, display)
    ELSE IF unit = Text(<<"k", "b", "p", "s">>) THEN Parsed(FloatOver1000(value), display)
    ELSE NoneParsed

\* value = float(m.group(1)); unit = m.group(2).lower();
\* display = f"{m.group(1)} {m.group(2)}"
ConvertGroups(group1, group2) ==
    ConvertUnit(FloatOf(group1), Lower(group2), group1 \o Text(<<" ">>) \o group2)

ConvertMatch(text, m) ==
    IF ~m.found THEN NoneParsed
    ELSE ConvertGroups(SubSeq(text, m.numFrom, m.numTo),
                       SubSeq(text, m.unitFrom, m.unitFrom + 3))

_parse_speed_to_mbps(text) == ConvertMatch(text, SpeedSearch(text))

(***************************************************************************)
(* The parsed document.  A cell is [tag, strings]: its tag and its text    *)
(* nodes in order.  A row (tr) is [sec, cells]: the section of the table   *)
(* it lies in ("thead", "tbody", or "table" for neither) and its cells.    *)
(* A table is [thead, tbody, trs]: whether it has a thead and a tbody      *)
(* element, and its rows in document order.  "thead" and "tbody" are the   *)
(* first such element of the table, the one find("thead") and              *)
(* find("tbody") return; the rows of one element follow one another.       *)
(* Tables are not nested.                                                  *)
(***************************************************************************)
NonEmpty(text) == IF text = <<>> THEN <<>> ELSE <<text>>

\* the stripped, non-empty text nodes of a cell
RECURSIVE StrippedStrings(_)
StrippedStrings(strings) ==
    IF strings = <<>> THEN <<>>
    ELSE NonEmpty(Strip(Head(strings))) \o StrippedStrings(Tail(strings))

\* cell.get_text(sep, strip=True)
GetText(cell, sep) == Join(sep, StrippedStrings(cell.strings))

HasTh(tr) == \E k \in 1..Len(tr.cells) : tr.cells[k].tag = "th"

InThead(tr) == tr.sec = "thead"

InTbody(tr) == tr.sec = "tbody"

\* thead.find("tr"), when there is a thead with a row that has cells
TheadRow(table, thead_trs) ==
    IF table.thead /\ thead_trs /= <<>> /\ thead_trs[1].cells /= <<>>
    THEN <<thead_trs[1]>>
    ELSE <<>>

\* table.find("tr"), when it contains a th
FirstRow(table) ==
    IF table.trs /= <<>> /\ HasTh(table.trs[1]) THEN <<table.trs[1]>> ELSE <<>>

FirstNonEmpty(first, second) == IF first /= <<>> THEN first ELSE second

\* the row header_cells is taken from: the row of the thead, else the first
\* row of the table if it contains a th; none is the empty sequence
HeaderRow(table) ==
    FirstNonEmpty(TheadRow(table, SelectSeq(table.trs, InThead)), FirstRow(table))

CellsOf(row) == IF row = <<>> THEN <<>> ELSE row[1].cells

\* header_cells; None is the empty sequence ("find_all(...) or None")
HeaderCells(table) == CellsOf(HeaderRow(table))

HeadersText(header_cells) ==
    [k \in 1..Len(header_cells) |-> GetText(header_cells[k], <<>>)]

(***************************************************************************)
(* Header classification                                                   *)
(***************************************************************************)
\* an unset column index
NoneCol == -1

KwIp == Text(<<"i", "p">>)
KwAddress == <<\h5730, \h5740>>
KwLine == <<\h7EBF, \h8DEF>>
KwOperator == <<\h8FD0, \h8425, \h5546>>
KwIsp == Text(<<"i", "s", "p">>)
KwSpeedCn == <<\h901F, \h5EA6>>
KwSpeed == Text(<<"s", "p", "e", "e", "d">>)

IsIpHeader(text) == Contains(Lower(text), KwIp) \/ Contains(text, KwAddress)

IsProviderHeader(text) ==
    Contains(text, KwLine) \/ Contains(text, KwOperator) \/ Contains(Lower(text), KwIsp)

IsSpeedHeader(text) == Contains(text, KwSpeedCn) \/ Contains(Lower(text), KwSpeed)

NoCols == [ip |-> NoneCol, provider |-> NoneCol, speed |-> NoneCol]

\* HeaderStep without the "is None" tests: the last qualifying cell wins
HeaderStepLastWins(cols, i, text) ==
    [ip       |-> IF IsIpHeader(text) THEN i ELSE cols.ip,
     provider |-> IF IsProviderHeader(text) THEN i ELSE cols.provider,
     speed    |-> IF IsSpeedHeader(text) THEN i ELSE cols.speed]

\* one turn of the loop over enumerate(headers_text); i is the zero-based index
HeaderStep(cols, i, text) ==
    [ip       |-> IF cols.ip = NoneCol /\ IsIpHeader(text) THEN i ELSE cols.ip,
     provider |-> IF cols.provider = NoneCol /\ IsProviderHeader(text)
                  THEN i ELSE cols.provider,
     speed    |-> IF cols.speed = NoneCol /\ IsSpeedHeader(text) THEN i ELSE cols.speed]

RECURSIVE ClassifyFrom(_, _, _)
ClassifyFrom(cols, i, texts) ==
    IF i >= Len(texts) THEN cols
    ELSE ClassifyFrom(HeaderStep(cols, i, texts[i + 1]), i + 1, texts)

ClassifyHeaders(texts) == ClassifyFrom(NoCols, 0, texts)

\* IsBodyRow without all_trs[1:]: the header row stays among the rows
IsBodyRowKeepingHeader(tbody, header_cells, k, tr) ==
    IF tbody THEN InTbody(tr) ELSE TRUE

\* whether the k-th row (tr) of a table, counted from 1, is among body_rows:
\* tbody.find_all("tr") when the table has a tbody, else all_trs[1:] when
\* header cells were found, else all_trs
IsBodyRow(tbody, header_cells, k, tr) ==
    IF tbody THEN InTbody(tr)
    ELSE IF header_cells /= <<>> THEN k > 1
    ELSE TRUE

RECURSIVE BodyRowsFrom(_, _, _, _)
BodyRowsFrom(tbody, header_cells, k, trs) ==
    IF k > Len(trs) THEN <<>>
    ELSE (IF IsBodyRow(tbody, header_cells, k, trs[k]) THEN <<trs[k]>> ELSE <<>>)
         \o BodyRowsFrom(tbody, header_cells, k + 1, trs)

\* body_rows
BodyRows(table) == BodyRowsFrom(table.tbody, HeaderCells(table), 1, table.trs)

\* ModeOf with the indices tested for truth, not against None: index 0 fails
ModeOfTruthy(cols) ==
    IF cols.ip > 0 /\ cols.provider > 0 /\ cols.speed > 0
    THEN "column"
    ELSE "fallback"

\* the test that selects column-specific extraction
ModeOf(cols) ==
    IF cols.ip /= NoneCol /\ cols.provider /= NoneCol /\ cols.speed /= NoneCol
    THEN "column"
    ELSE "fallback"

(***************************************************************************)
(* ip_regex  \b(?:\d{1,3}\.){3}\d{1,3}\b                                   *)
(***************************************************************************)
\* \d{1,3} from p to e
IsOctet(p, e) == e >= p /\ e - p + 1 <= 3

RECURSIVE OctetDots(_, _, _)
\* \d{1,3}\. from p, the digits ending at e, then n more of them
OctetDot(text, p, e, n) ==
    IF IsOctet(p, e) /\ e + 1 <= Len(text) /\ text[e + 1] = Dot
    THEN OctetDots(text, e + 2, n)
    ELSE 0

\* (?:\d{1,3}\.){n} from p: the position after the n-th dot, 0 when no match
OctetDots(text, p, n) ==
    IF n = 0 THEN p ELSE OctetDot(text, p, DigitRunEnd(text, p), n - 1)

\* \d{1,3}\b from p, the digits ending at e
LastOctet(text, p, e) ==
    IF IsOctet(p, e) /\ (e = Len(text) \/ ~IsWordChar(text[e + 1])) THEN e ELSE 0

IpTail(text, p) == IF p = 0 THEN 0 ELSE LastOctet(text, p, DigitRunEnd(text, p))

\* the index of the last character of the match anchored at i, 0 when none
IpMatchEnd(text, i) ==
    IF /\ i <= Len(text) /\ IsDigit(text[i])
       /\ (i = 1 \/ ~IsWordChar(text[i - 1]))
    THEN IpTail(text, OctetDots(text, i, 3))
    ELSE 0

\* the start of the leftmost match at or after p, 0 when none
IpNextStart(text, p) == MinOrZero({i \in p..Len(text) : IpMatchEnd(text, i) /= 0})

IpTextAt(text, i) == IF i = 0 THEN <<>> ELSE SubSeq(text, i, IpMatchEnd(text, i))

\* ip_regex.search(text): the matched text, <<>> when none
IpSearch(text) == IpTextAt(text, IpNextStart(text, 1))

RECURSIVE IpFindAllFrom(_, _)
IpFindAllAt(text, i, e) ==
    IF i = 0 THEN <<>> ELSE <<SubSeq(text, i, e)>> \o IpFindAllFrom(text, e + 1)

IpFindAllNext(text, i) == IpFindAllAt(text, i, IpMatchEnd(text, i))

\* ip_regex.findall(text), scanning from p
IpFindAllFrom(text, p) == IpFindAllNext(text, IpNextStart(text, p))

IpFindAll(text) == IpFindAllFrom(text, 1)

RECURSIVE SplitDots(_)
SplitAt(text, d) ==
    IF d = 0 THEN <<text>>
    ELSE <<SubSeq(text, 1, d - 1)>> \o SplitDots(SubSeq(text, d + 1, Len(text)))

\* ip.split(".")
SplitDots(text) == SplitAt(text, MinOrZero({k \in 1..Len(text) : text[k] = Dot}))

OctetValuesInRange(octets) ==
    \A k \in 1..Len(octets) :
        0 <= DigitsValue(octets[k]) /\ DigitsValue(octets[k]) <= 255

\* OctetsInRange with any(...) for all(...)
OctetsAnyInRange(ip) ==
    \E k \in 1..Len(SplitDots(ip)) : DigitsValue(SplitDots(ip)[k]) <= 255

\* all(0 <= int(o) <= 255 for o in octets)
OctetsInRange(ip) == OctetValuesInRange(SplitDots(ip))

(***************************************************************************)
(* Row extraction and dedup                                                *)
(***************************************************************************)
Unknown == <<\h672A, \h77E5>>

Marker == <<\h7535, \h4FE1>>

Max3(a, b, c) ==
    IF a >= b /\ a >= c THEN a ELSE IF b >= c THEN b ELSE c

Record(ip, mbps, display) == [ip |-> ip, mbps |-> mbps, display |-> display]

\* AddRecord where a later occurrence replaces the record of its address
AddRecordLastWins(acc, rec) ==
    IF rec.ip \notin acc.seen
    THEN [seen |-> acc.seen \cup {rec.ip}, results |-> Append(acc.results, rec)]
    ELSE [seen |-> acc.seen,
          results |-> [k \in 1..Len(acc.results) |->
                          IF acc.results[k].ip = rec.ip THEN rec ELSE acc.results[k]]]

\* if ip not in seen_ips: seen_ips.add(ip); results.append(...)
AddRecord(acc, rec) ==
    IF rec.ip \notin acc.seen
    THEN [seen |-> acc.seen \cup {rec.ip}, results |-> Append(acc.results, rec)]
    ELSE acc

RECURSIVE AddRecords(_, _)
AddRecords(acc, recs) ==
    IF recs = <<>> THEN acc
    ELSE AddRecords(AddRecord(acc, Head(recs)), Tail(recs))

\* ColumnSpeedOf without "speed_text or": the sentinel for every unparsed text
ColumnSpeedSentinel(stext, p) ==
    IF p.ok THEN [mbps |-> p.mbps, display |-> p.display]
    ELSE [mbps |-> Zero, display |-> Unknown]

\* mbps_value, display_speed = parsed, else 0.0, speed_text or "unknown"
ColumnSpeedOf(stext, p) ==
    IF p.ok THEN [mbps |-> p.mbps, display |-> p.display]
    ELSE [mbps |-> Zero,
          display |-> IF stext /= <<>> THEN stext ELSE Unknown]

\* the speed of a column-mode row
ColumnSpeed(stext) == ColumnSpeedOf(stext, _parse_speed_to_mbps(stext))

ColumnRecord(ip, sp) == Record(ip, sp.mbps, sp.display)

\* the marker test of a column-mode row
ColumnHasMarker(tr, cols) ==
    Contains(GetText(tr.cells[cols.provider + 1], <<>>), Marker)

\* too few cells for the resolved columns
TooFewCells(tr, cols) ==
    tr.cells = <<>> \/ Len(tr.cells) <= Max3(cols.ip, cols.provider, cols.speed)

\* the address found in the address cell, and the speed cell
ColumnAddress(ip, stext) ==
    IF ip = <<>> THEN <<>>
    ELSE IF ~OctetsInRange(ip) THEN <<>>
    ELSE <<ColumnRecord(ip, ColumnSpeed(stext))>>

\* the records one body row yields in column mode, before dedup
ColumnCandidates(tr, cols) ==
    IF TooFewCells(tr, cols) THEN <<>>
    ELSE IF ~ColumnHasMarker(tr, cols) THEN <<>>
    ELSE ColumnAddress(IpSearch(GetText(tr.cells[cols.ip + 1], Text(<<" ">>))),
                       GetText(tr.cells[cols.speed + 1], Text(<<" ">>)))

\* " ".join(texts) of a fallback row
RowText(tr) ==
    Join(Text(<<" ">>), [k \in 1..Len(tr.cells) |-> GetText(tr.cells[k], <<>>)])

\* mbps_value, display_speed = 0.0, "unknown" unless the row text parses
FallbackSpeedOf(p) ==
    IF p.ok THEN [mbps |-> p.mbps, display |-> p.display]
    ELSE [mbps |-> Zero, display |-> Unknown]

\* the speed of a fallback row
FallbackSpeed(row_text) == FallbackSpeedOf(_parse_speed_to_mbps(row_text))

FallbackHasMarker(tr) == Contains(RowText(tr), Marker)

FallbackRecords(valid, sp) ==
    [k \in 1..Len(valid) |-> Record(valid[k], sp.mbps, sp.display)]

\* the addresses of the row text that pass the octet test, with the row's speed
FallbackOfText(row_text) ==
    FallbackRecords(SelectSeq(IpFindAll(row_text), OctetsInRange),
                    FallbackSpeed(row_text))

\* FallbackCandidates without the marker test
FallbackCandidatesAnyRow(tr) ==
    IF tr.cells = <<>> THEN <<>> ELSE FallbackOfText(RowText(tr))

\* the records one body row yields in fallback mode, before dedup
FallbackCandidates(tr) ==
    IF tr.cells = <<>> THEN <<>>
    ELSE IF ~FallbackHasMarker(tr) THEN <<>>
    ELSE FallbackOfText(RowText(tr))

(***************************************************************************)
(* results.sort(key=lambda x: x[1], reverse=True)                          *)
(* list.sort with reverse=True reverses the list, sorts it ascending and   *)
(* stable, and reverses it again.                                          *)
(***************************************************************************)
Reverse(list) == [k \in 1..Len(list) |-> list[Len(list) + 1 - k]]

\* rec inserted after the last element that is not greater than it
RECURSIVE InsertAsc(_, _)
InsertAsc(sorted, rec) ==
    IF sorted = <<>> THEN <<rec>>
    ELSE IF FloatGreater(sorted[Len(sorted)].mbps, rec.mbps)
         THEN Append(InsertAsc(SubSeq(sorted, 1, Len(sorted) - 1), rec),
                     sorted[Len(sorted)])
    ELSE Append(sorted, rec)

RECURSIVE StableSortAsc(_)
StableSortAsc(list) ==
    IF list = <<>> THEN <<>>
    ELSE InsertAsc(StableSortAsc(SubSeq(list, 1, Len(list) - 1)), list[Len(list)])

\* the sort as an ascending stable sort reversed: ties come out reversed
SortTiesReversed(list) == Reverse(StableSortAsc(list))

SortByMbpsDesc(list) == Reverse(StableSortAsc(Reverse(list)))

\* f"{ip}  Cloudflare-{display}"
FormatLine(rec) ==
    rec.ip \o Text(<<" ", " ">>)
    \o Text(<<"C", "l", "o", "u", "d", "f", "l", "a", "r", "e", "-">>) \o rec.display

FormatLines(recs) == [k \in 1..Len(recs) |-> FormatLine(recs[k])]

(***************************************************************************)
(* Inputs.  The document is not held in the state: a table's sections and  *)
(* first row are drawn when the scan reaches the table, each later row     *)
(* when the scan reaches it.  The scan reads every row once, in document   *)
(* order.                                                                  *)
(***************************************************************************)
\* tables taken from one document
MaxTables == 2

\* rows of one table after its first
MaxRows == 2

\* header cells of one classified header row
MaxHeaderCells == 3

\* pieces a speed text is put together from
MaxPieces == 4

\* records in a list handed to the sort on its own
MaxSortLen == 3

Td(text) == [tag |-> "td", strings |-> <<text>>]

Th(text) == [tag |-> "th", strings |-> <<text>>]

IpA == Text(<<"1", ".", "1", ".", "1", ".", "1">>)
IpB == Text(<<"2", ".", "2", ".", "2", ".", "2">>)
IpBad == Text(<<"1", ".", "1", ".", "1", ".", "3", "0", "0">>)
Unicom == <<\h8054, \h901A>>

\* the cells of the data rows
RowSet ==
    { \* " 1.1.1.1" | the marker split over two text nodes | "1 MB/s"
      << Td(Text(<<" ">>) \o IpA),
         [tag |-> "td", strings |-> << <<\h7535>>, <<\h4FE1>> >>],
         Td(Text(<<"1", " ", "M", "B", "/", "s">>)) >>,
      \* "1.1.1.1" | marker | "8 Mbps"
      << Td(IpA), Td(Marker), Td(Text(<<"8", " ", "M", "b", "p", "s">>)) >>,
      \* "2.2.2.2" | marker | "500 Mbps"
      << Td(IpB), Td(Marker), Td(Text(<<"5", "0", "0", " ", "M", "b", "p", "s">>)) >>,
      \* "2.2.2.2" | other provider | "20 MB/s"
      << Td(IpB), Td(Unicom), Td(Text(<<"2", "0", " ", "M", "B", "/", "s">>)) >>,
      \* "2.2.2.2" | marker | "fast"
      << Td(IpB), Td(Marker), Td(Text(<<"f", "a", "s", "t">>)) >>,
      \* "1.1.1.300 2.2.2.2" | marker | no text
      << Td(IpBad \o Text(<<" ">>) \o IpB), Td(Marker), [tag |-> "td", strings |-> <<>>] >>,
      \* "1.1.1.1" | marker | no text
      << Td(IpA), Td(Marker), [tag |-> "td", strings |-> <<>>] >>,
      \* one cell: "marker 1.1.1.1 2.2.2.2 850 KB/s"
      << Td(Marker \o Text(<<" ">>) \o IpA \o Text(<<" ">>) \o IpB
            \o Text(<<" ", "8", "5", "0", " ", "K", "B", "/", "s">>)) >>,
      \* "marker 1.1.1.1" | other provider | "9 Kbps"
      << Td(Marker \o Text(<<" ">>) \o IpA), Td(Unicom),
         Td(Text(<<"9", " ", "K", "b", "p", "s">>)) >> }

\* "IP address" | "line" | "speed"
HdrFull == << Th(Text(<<"I", "P">>) \o KwAddress), Th(KwLine), Th(KwSpeedCn) >>

\* "IP 2.2.2.2" | "ISP marker" | "Speed": a header row that reads as a data row
HdrLive == << Th(Text(<<"I", "P", " ">>) \o IpB), Th(Text(<<"I", "S", "P", " ">>) \o Marker),
              Th(Text(<<"S", "p", "e", "e", "d">>)) >>

\* "IP address" | "speed": no provider column
HdrPartial == << Th(Text(<<"I", "P">>) \o KwAddress), Th(KwSpeedCn) >>

\* "IP speed" | "line": one cell that reads as two roles
HdrDual == << Th(Text(<<"I", "P">>) \o KwSpeedCn), Th(KwLine) >>

HeaderRows == {HdrFull, HdrLive, HdrPartial, HdrDual}

\* the first row of a table
FirstTrs ==
    {[sec |-> s, cells |-> c] : s \in {"thead", "tbody", "table"},
                                c \in HeaderRows \cup RowSet}

\* a later row of a table
LaterTrs == {[sec |-> s, cells |-> c] : s \in {"tbody", "table"}, c \in RowSet}

\* a table as far as its first row: its sections, and its first row if it has one
TableHeads ==
    {t \in [thead : BOOLEAN, tbody : BOOLEAN,
            trs : {<<>>} \cup {<<tr>> : tr \in FirstTrs}] :
        \A k \in 1..Len(t.trs) :
            /\ InThead(t.trs[k]) => t.thead
            /\ InTbody(t.trs[k]) => t.tbody}

\* every row that can come to stand in body_rows
BodyTrs == FirstTrs \cup LaterTrs

\* the header mappings that select column-specific extraction
ColumnCols ==
    {c \in {ClassifyHeaders(HeadersText(h)) : h \in HeaderRows} : ModeOf(c) = "column"}

\* ColumnCandidates and FallbackCandidates, tabulated once over the input rows
ColumnOf == [tr \in BodyTrs |-> [c \in ColumnCols |-> ColumnCandidates(tr, c)]]

FallbackOf == [tr \in BodyTrs |-> FallbackCandidates(tr)]

(***************************************************************************)
(* main, fetch_html and the scan of extract_telecom_ips                    *)
(***************************************************************************)
NoRc == -1

Idle ==
    /\ speed_text = <<>>
    /\ parsed = NoneParsed

NoTable ==
    /\ headers_text = <<>>
    /\ idx = 0
    /\ ip_col = NoneCol /\ provider_col = NoneCol /\ speed_col = NoneCol
    /\ mode = "none"
    /\ has_thead = FALSE
    /\ has_tbody = FALSE
    /\ header_row = <<>>
    /\ tr_no = 0
    /\ tbody_at = "ahead"
    /\ body_rows = <<>>
    /\ last_turn = <<>>
    /\ loops_run = {}

NoRecords ==
    /\ seen_ips = {}
    /\ results = <<>>
    /\ discovered = <<>>

\* "\n".join(lines) + "\n"
FileText(ls) == Join(<<10>>, ls) \o <<10>>

\* the bytes of one character in UTF-8
Utf8Char(c) ==
    IF c < 128 THEN <<c>>
    ELSE IF c < 2048 THEN <<192 + (c \div 64), 128 + (c % 64)>>
    ELSE IF c < 65536
    THEN <<224 + (c \div 4096), 128 + ((c \div 64) % 64), 128 + (c % 64)>>
    ELSE <<240 + (c \div 262144), 128 + ((c \div 4096) % 64),
           128 + ((c \div 64) % 64), 128 + (c % 64)>>

\* text.encode("utf-8"), what a file opened with encoding="utf-8" receives;
\* the texts here hold no surrogate, which alone cannot be encoded
RECURSIVE Utf8(_)
Utf8(text) ==
    IF text = <<>> THEN <<>>
    ELSE IF Len(text) = 1 THEN Utf8Char(text[1])
    ELSE Utf8(SubSeq(text, 1, Len(text) \div 2))
         \o Utf8(SubSeq(text, Len(text) \div 2 + 1, Len(text)))

\* the bytes a run writes to dx.txt for its lines
FileBytes(ls) == Utf8(FileText(ls))

\* what an earlier run returned: "1.1.1.1" with the unknown speed
EarlierItems == <<Record(IpA, Zero, Unknown)>>

\* dx.txt before the run: <<>> when there is no such file, else its content,
\* here what an earlier run wrote; the run at hand may be about to write the
\* same bytes or other ones
PriorFiles == {<<>>, <<FileBytes(FormatLines(EarlierItems))>>}

\* str(e) of the exception a fetch or a write raises
ErrorTexts == {Text(<<"t", "i", "m", "e", "o", "u", "t">>), Text(<<"d", "e", "n", "i", "e", "d">>)}

FetchFailedText ==
    (<<\h8BF7, \h6C42, \h7F51, \h9875, \h5931, \h8D25>> \o Text(<<":", " ">>))

NoneFoundText ==
    (<<\h672A, \h627E, \h5230, \h7535, \h4FE1, \h7EBF, \h8DEF, \h7684>> \o
     Text(<<"I", "P">>) \o <<\h5730, \h5740, \h3002, \h53EF, \h80FD, \h9875,
     \h9762, \h7ED3, \h6784, \h5DF2, \h53D8, \h6216, \h9700, \h8981, \h6D4F,
     \h89C8, \h5668, \h6E32, \h67D3, \h3002>>)

WriteFailedText ==
    (<<\h5199, \h5165>> \o Text(<<"d", "x", ".", "t", "x", "t">>) \o <<\h5931,
     \h8D25>> \o Text(<<":", " ">>))

\* dx.txt after a write that raised: as it was when open raised; else
\* truncated by open and holding the bytes that reached it, which may end
\* within a character and, when it is close that raised, may be all of them
FailedWrites(before, bytes) ==
    {before} \cup {<<SubSeq(bytes, 1, n)>> : n \in 0..Len(bytes)}

\* main has not run past the fetch: nothing is printed, dx.txt is as it was
NotReturned ==
    /\ items = <<>>
    /\ lines = <<>>
    /\ written \in PriorFiles
    /\ wrote = "none"
    /\ printed = <<>>
    /\ rc = NoRc

Init ==
    /\ pc = "fetch"
    /\ fetched = "none"
    /\ ntables = 0
    /\ NoTable
    /\ NoRecords
    /\ NotReturned
    /\ Idle

tableVars == <<headers_text, idx, ip_col, provider_col, speed_col, mode,
               has_thead, has_tbody, header_row>>

scanVars == <<ntables, tableVars, tr_no, tbody_at, body_rows, seen_ips, results, discovered,
              last_turn, loops_run>>

mainVars == <<items, lines, written, wrote, printed>>

pureVars == <<speed_text, parsed>>

\* fetch_html: session.get(url, headers=headers, timeout=20)
FetchFirst ==
    /\ pc = "fetch"
    /\ \E ok \in BOOLEAN :
          IF ok THEN pc' = "scan" /\ fetched' = "ok"
          ELSE pc' = "retry" /\ fetched' = "none"
    /\ UNCHANGED <<scanVars, mainVars, pureVars, rc>>

\* fetch_html: the retry with verify=False; main returns 1 when it raises
FetchRetry ==
    /\ pc = "retry"
    /\ \E ok \in BOOLEAN :
          IF ok THEN pc' = "scan" /\ fetched' = "ok" /\ rc' = rc /\ printed' = printed
          ELSE /\ pc' = "done" /\ fetched' = "failed" /\ rc' = 1
               /\ \E e \in ErrorTexts : printed' = <<FetchFailedText \o e>>
    /\ UNCHANGED <<scanVars, items, lines, written, wrote, pureVars>>

Cols == [ip |-> ip_col, provider |-> provider_col, speed |-> speed_col]

\* the locals of one turn of "for table in tables"
SetTable(table, texts, cols) ==
    /\ headers_text' = texts
    /\ idx' = Len(texts)
    /\ ip_col' = cols.ip
    /\ provider_col' = cols.provider
    /\ speed_col' = cols.speed
    /\ mode' = ModeOf(cols)
    /\ has_thead' = table.thead
    /\ has_tbody' = table.tbody
    /\ header_row' = HeaderRow(table)
    /\ tr_no' = Len(table.trs)
    /\ tbody_at' = IF table.trs /= <<>> /\ InTbody(table.trs[1]) THEN "open" ELSE "ahead"
    /\ body_rows' = BodyRows(table)

ClassifyTable(table, texts) == SetTable(table, texts, ClassifyHeaders(texts))

\* for table in tables: header detection, classification, mode, and the body
\* rows as far as the first row of the table
BeginTable ==
    /\ pc = "scan"
    /\ ntables < MaxTables
    /\ \E table \in TableHeads : ClassifyTable(table, HeadersText(HeaderCells(table)))
    /\ ntables' = ntables + 1
    /\ pc' = "rows"
    /\ UNCHANGED <<fetched, seen_ips, results, discovered, last_turn, loops_run,
                   mainVars, pureVars, rc>>

\* the next row of the table is read: it joins body_rows if it is a body row
\* (headers_text is empty exactly when header_cells is None)
ReadRow ==
    /\ pc = "rows"
    /\ body_rows = <<>>
    /\ tr_no >= 1
    /\ tr_no <= MaxRows
    /\ \E tr \in LaterTrs :
          /\ InTbody(tr) => has_tbody /\ tbody_at /= "closed"
          /\ tbody_at' = IF InTbody(tr) THEN "open"
                         ELSE IF tbody_at = "open" THEN "closed"
                         ELSE tbody_at
          /\ body_rows' = IF IsBodyRow(has_tbody, headers_text, tr_no + 1, tr)
                          THEN <<tr>> ELSE <<>>
    /\ tr_no' = tr_no + 1
    /\ last_turn' = <<>>
    /\ UNCHANGED <<pc, fetched, ntables, tableVars, seen_ips, results, discovered,
                   loops_run, mainVars, pureVars, rc>>

SetAccumulated(acc) ==
    /\ seen_ips' = acc.seen
    /\ results' = acc.results
    /\ discovered' = acc.results

Accumulate(recs) ==
    SetAccumulated(AddRecords([seen |-> seen_ips, results |-> results], recs))

\* one turn of "for tr in body_rows" of column-specific extraction
ColumnRow ==
    /\ pc = "rows"
    /\ mode = "column"
    /\ body_rows /= <<>>
    /\ Accumulate(ColumnOf[Head(body_rows)][Cols])
    /\ last_turn' = <<[tr |-> Head(body_rows), by |-> "column", before |-> results]>>
    /\ loops_run' = loops_run \cup {"column"}
    /\ body_rows' = Tail(body_rows)
    /\ UNCHANGED <<pc, fetched, ntables, tableVars, tr_no, tbody_at, mainVars,
                   pureVars, rc>>

\* one turn of "for tr in body_rows" of row-wide text parsing
FallbackRow ==
    /\ pc = "rows"
    /\ mode = "fallback"
    /\ body_rows /= <<>>
    /\ Accumulate(FallbackOf[Head(body_rows)])
    /\ last_turn' = <<[tr |-> Head(body_rows), by |-> "fallback", before |-> results]>>
    /\ loops_run' = loops_run \cup {"fallback"}
    /\ body_rows' = Tail(body_rows)
    /\ UNCHANGED <<pc, fetched, ntables, tableVars, tr_no, tbody_at, mainVars,
                   pureVars, rc>>

\* the table has no further row: proceed to the next table; the locals of the
\* turn are dead until the next turn assigns them again
EndTable ==
    /\ pc = "rows"
    /\ body_rows = <<>>
    /\ pc' = "scan"
    /\ headers_text' = <<>>
    /\ idx' = 0
    /\ ip_col' = NoneCol /\ provider_col' = NoneCol /\ speed_col' = NoneCol
    /\ mode' = "none"
    /\ has_thead' = FALSE
    /\ has_tbody' = FALSE
    /\ header_row' = <<>>
    /\ tr_no' = 0
    /\ tbody_at' = "ahead"
    /\ last_turn' = <<>>
    /\ loops_run' = {}
    /\ UNCHANGED <<fetched, ntables, body_rows, seen_ips, results, discovered,
                   mainVars, pureVars, rc>>

\* no table is left: results.sort(...); return results; items = ...
SortResults ==
    /\ pc = "scan"
    /\ results' = SortByMbpsDesc(results)
    /\ items' = results'
    /\ pc' = "main"
    /\ UNCHANGED <<fetched, ntables, tableVars, tr_no, tbody_at, body_rows, seen_ips,
                   discovered, last_turn, loops_run, lines, written, wrote, printed,
                   pureVars, rc>>

\* if not items: return 2; else the lines are formatted
CheckItems ==
    /\ pc = "main"
    /\ IF items = <<>>
       THEN pc' = "done" /\ rc' = 2 /\ lines' = lines /\ printed' = <<NoneFoundText>>
       ELSE pc' = "write" /\ rc' = rc /\ lines' = FormatLines(items) /\ printed' = printed
    /\ UNCHANGED <<fetched, scanVars, items, written, wrote, pureVars>>

\* WriteFile with the exception swallowed: main goes on to print
WriteFileErrorIgnored ==
    /\ pc = "write"
    /\ \E ok \in BOOLEAN :
          IF ok
          THEN /\ pc' = "print" /\ written' = <<FileBytes(lines)>> /\ rc' = rc
               /\ wrote' = "ok"
          ELSE /\ pc' = "print" /\ rc' = rc /\ wrote' = "failed"
               /\ written' \in FailedWrites(written, FileBytes(lines))
    /\ UNCHANGED <<fetched, scanVars, items, lines, printed, pureVars>>

\* with open("dx.txt", "w", encoding="utf-8") as f: f.write(...); the
\* message and return 3 when open, write or close raises
WriteFile ==
    /\ pc = "write"
    /\ \E ok \in BOOLEAN :
          IF ok
          THEN /\ pc' = "print" /\ written' = <<FileBytes(lines)>> /\ rc' = rc
               /\ wrote' = "ok" /\ printed' = printed
          ELSE /\ pc' = "done" /\ rc' = 3 /\ wrote' = "failed"
               /\ written' \in FailedWrites(written, FileBytes(lines))
               /\ \E e \in ErrorTexts : printed' = <<WriteFailedText \o e>>
    /\ UNCHANGED <<fetched, scanVars, items, lines, pureVars>>

\* for line in lines: print(line); return 0
PrintLines ==
    /\ pc = "print"
    /\ printed' = printed \o lines
    /\ rc' = 0
    /\ pc' = "done"
    /\ UNCHANGED <<fetched, scanVars, items, lines, written, wrote, pureVars>>

Next ==
    \/ FetchFirst
    \/ FetchRetry
    \/ BeginTable
    \/ ReadRow
    \/ ColumnRow
    \/ FallbackRow
    \/ EndTable
    \/ SortResults
    \/ CheckItems
    \/ WriteFile
    \/ PrintLines

Spec == Init /\ [][Next]_vars

(***************************************************************************)
(* _parse_speed_to_mbps on its own, over texts put together from pieces    *)
(***************************************************************************)
Pieces ==
    { Text(<<"1">>), Text(<<"2">>), <<\h0663>>, Text(<<".">>), Text(<<" ">>), <<10>>, Text(<<"x">>),
      Text(<<"M", "B", "/", "s">>), Text(<<"k", "b", "p", "s">>), (Text(<<"M",
       "B", "/">>) \o <<\h017F>>) }

RECURSIVE Concat(_)
Concat(parts) == IF parts = <<>> THEN <<>> ELSE Head(parts) \o Concat(Tail(parts))

\* "12.3 MB/s", "1 GB/s", "900 Kbps", "500 Mbps", "850 KB/s", "2 gBpS"
ExampleTexts ==
    { Text(<<"1", "2", ".", "3", " ", "M", "B", "/", "s">>),
      Text(<<"1", " ", "G", "B", "/", "s">>),
      Text(<<"9", "0", "0", " ", "K", "b", "p", "s">>),
      Text(<<"5", "0", "0", " ", "M", "b", "p", "s">>),
      Text(<<"8", "5", "0", " ", "K", "B", "/", "s">>),
      Text(<<"2", " ", "g", "B", "p", "S">>) }

SpeedTexts ==
    ExampleTexts
    \cup {Concat(parts) : parts \in UNION {[1..n -> Pieces] : n \in 0..MaxPieces}}

InitSpeed ==
    /\ pc = "parse"
    /\ fetched = "none"
    /\ ntables = 0
    /\ NoTable
    /\ NoRecords
    /\ NotReturned
    /\ written = <<>>
    /\ speed_text \in SpeedTexts
    /\ parsed = NoneParsed

ParseSpeed ==
    /\ pc = "parse"
    /\ parsed' = _parse_speed_to_mbps(speed_text)
    /\ pc' = "parsed"
    /\ UNCHANGED <<fetched, scanVars, mainVars, rc, speed_text>>

NextSpeed == ParseSpeed

SpecSpeed == InitSpeed /\ [][NextSpeed]_vars

(***************************************************************************)
(* The loop over enumerate(headers_text) on its own, one cell a step       *)
(***************************************************************************)
HeaderTexts ==
    { Text(<<"I", "P">>) \o KwAddress, KwLine, KwSpeedCn, KwOperator,
      Text(<<"I", "P">>) \o KwSpeedCn, Text(<<"I", "S", "P">>), Text(<<"S", "p", "e", "e", "d">>),
      Text(<<"x">>) }

HeaderLists == UNION {[1..n -> HeaderTexts] : n \in 0..MaxHeaderCells}

InitHdr ==
    /\ pc = "headers"
    /\ fetched = "ok"
    /\ ntables = 1
    /\ headers_text \in HeaderLists
    /\ idx = 0
    /\ ip_col = NoneCol /\ provider_col = NoneCol /\ speed_col = NoneCol
    /\ mode = "none"
    /\ has_thead = FALSE
    /\ has_tbody = FALSE
    /\ header_row = <<>>
    /\ tr_no = 0
    /\ tbody_at = "ahead"
    /\ body_rows = <<>>
    /\ last_turn = <<>>
    /\ loops_run = {}
    /\ NoRecords
    /\ NotReturned
    /\ written = <<>>
    /\ Idle

SetCols(cols) ==
    /\ ip_col' = cols.ip
    /\ provider_col' = cols.provider
    /\ speed_col' = cols.speed

\* for idx, text in enumerate(headers_text): the three tests
ClassifyCell ==
    /\ pc = "headers"
    /\ idx < Len(headers_text)
    /\ SetCols(HeaderStep(Cols, idx, headers_text[idx + 1]))
    /\ idx' = idx + 1
    /\ UNCHANGED <<pc, fetched, ntables, headers_text, mode, has_thead, has_tbody,
                   header_row, tr_no, tbody_at, body_rows, seen_ips, results,
                   discovered, last_turn, loops_run, mainVars, pureVars, rc>>

NextHdr == ClassifyCell

SpecHdr == InitHdr /\ [][NextHdr]_vars

(***************************************************************************)
(* The sort on its own, over lists of records with distinct addresses      *)
(***************************************************************************)
IpC == Text(<<"3", ".", "3", ".", "3", ".", "3">>)
IpD == Text(<<"4", ".", "4", ".", "4", ".", "4">>)

\* "1 MB/s" and "8 Mbps", which are the same speed; "500 Mbps"; "0.00056 Mbps"
\* and "0.07 KB/s", which the rounding of the division makes the greater
SortTexts ==
    { Text(<<"1", " ", "M", "B", "/", "s">>),
      Text(<<"8", " ", "M", "b", "p", "s">>),
      Text(<<"5", "0", "0", " ", "M", "b", "p", "s">>),
      Text(<<"0", ".", "0", "0", "0", "5", "6", " ", "M", "b", "p", "s">>),
      Text(<<"0", ".", "0", "7", " ", "K", "B", "/", "s">>) }

\* their speeds, and the unknown speed
SortSpeeds ==
    { [mbps |-> _parse_speed_to_mbps(t).mbps,
       display |-> _parse_speed_to_mbps(t).display] : t \in SortTexts }
    \cup { [mbps |-> Zero, display |-> Unknown] }

SortRecords ==
    {Record(ip, sp.mbps, sp.display) : ip \in {IpA, IpB, IpC, IpD}, sp \in SortSpeeds}

SortLists ==
    {l \in UNION {[1..n -> SortRecords] : n \in 0..MaxSortLen} :
        \A i, j \in 1..Len(l) : i /= j => l[i].ip /= l[j].ip}

InitSort ==
    /\ pc = "scan"
    /\ fetched = "ok"
    /\ ntables = 1
    /\ NoTable
    /\ results \in SortLists
    /\ seen_ips = {results[k].ip : k \in 1..Len(results)}
    /\ discovered = results
    /\ NotReturned
    /\ written = <<>>
    /\ Idle

NextSort == SortResults

SpecSort == InitSort /\ [][NextSort]_vars

(***************************************************************************)
(* Properties of the header mapping, checked under SpecHdr                 *)
(***************************************************************************)
\* the zero-based indices, among the cells classified so far, of the header
\* texts a keyword rule accepts
Qualifying(Rule(_)) == {j \in 0..(idx - 1) : Rule(headers_text[j + 1])}

EarliestOrUnset(col, Q) ==
    IF Q = {} THEN col = NoneCol ELSE col \in Q /\ \A j \in Q : col <= j

AllResolved == ip_col /= NoneCol /\ provider_col /= NoneCol /\ speed_col /= NoneCol

\* C10, as amended: after any number of header cells classified, each role is
\* unset when no cell so far satisfies its keyword rule, and else holds the
\* index of the earliest such cell (so a later cell never reassigns it)
C10_EarliestCellWins ==
    /\ EarliestOrUnset(ip_col, Qualifying(IsIpHeader))
    /\ EarliestOrUnset(provider_col, Qualifying(IsProviderHeader))
    /\ EarliestOrUnset(speed_col, Qualifying(IsSpeedHeader))

\* C10 as stated: the earliest cell wins, and the resolved indices of different
\* roles are pairwise distinct
C10_DistinctRoles ==
    /\ EarliestOrUnset(ip_col, Qualifying(IsIpHeader))
    /\ EarliestOrUnset(provider_col, Qualifying(IsProviderHeader))
    /\ EarliestOrUnset(speed_col, Qualifying(IsSpeedHeader))
    /\ ip_col /= NoneCol /\ provider_col /= NoneCol => ip_col /= provider_col
    /\ ip_col /= NoneCol /\ speed_col /= NoneCol => ip_col /= speed_col
    /\ provider_col /= NoneCol /\ speed_col /= NoneCol => provider_col /= speed_col

\* every cell is classified, all roles are resolved, and a later cell that
\* satisfies the address rule has left the address role at the earlier one
C10_LaterCellIgnored ==
    /\ pc = "headers"
    /\ idx = Len(headers_text)
    /\ AllResolved
    /\ \E j \in Qualifying(IsIpHeader) : j > ip_col

(***************************************************************************)
(* Properties of the speed normaliser, checked under SpecSpeed             *)
(***************************************************************************)
\* the folding of the case of the ASCII letters only, "A" to "Z"
AsciiLower(c) == IF c \in 65..90 THEN c + 32 ELSE c

\* text[i..e] reads as a decimal number: digits, or digits "." digits
IsDecimal(text, i, e) ==
    /\ i <= e
    /\ IsDigit(text[i])
    /\ IsDigit(text[e])
    /\ \A k \in i..e : IsDigit(text[k]) \/ text[k] = Dot
    /\ Cardinality({k \in i..e : text[k] = Dot}) <= 1

\* the p-th unit token stands at u, letters compared after folding their case
TokenAt(text, u, p, Fold(_)) ==
    /\ u + 3 <= Len(text)
    /\ \A k \in 1..4 : Fold(text[u + k - 1]) = Fold(UnitPatterns[p][k])

\* an occurrence: a decimal number from i to e, optional whitespace, and the
\* p-th unit token at u
Occurs(text, i, e, u, p, Fold(_)) ==
    /\ IsDecimal(text, i, e)
    /\ e < u
    /\ \A k \in (e + 1)..(u - 1) : IsSpace(text[k])
    /\ TokenAt(text, u, p, Fold)

OccursAt(text, i, Fold(_)) ==
    /\ IsDigit(text[i])
    /\ \E e \in i..Len(text) : \E u \in (e + 1)..Len(text) : \E p \in 1..6 :
           Occurs(text, i, e, u, p, Fold)

HasOccurrence(text, Fold(_)) == \E i \in 1..Len(text) : OccursAt(text, i, Fold)

\* number x factor is num / 10^zeros: GB/s 8000, MB/s 8, KB/s 0.008,
\* Gbps 1000, Mbps 1, Kbps 0.001
Exact(ok, num, zeros, display) ==
    [ok |-> ok, num |-> num, zeros |-> zeros, display |-> display]

NoneExact == Exact(FALSE, <<>>, 0, <<>>)

\* the digits of the number times the whole part of the factor
FactorNum(ds, p) ==
    IF ds = <<>> THEN <<>>
    ELSE CASE p = 1 -> TimesPower(ds, 2, 3) \o <<0, 0, 0>>
           [] p \in {2, 3} -> TimesPower(ds, 2, 3)
           [] p = 4 -> ds \o <<0, 0, 0>>
           [] p \in {5, 6} -> ds

FactorZeros(p) == IF p \in {3, 6} THEN 3 ELSE 0

ResultOf(number, token, p) ==
    Exact(TRUE,
          FactorNum(DropLeadingZeros(DigitVals(SelectSeq(number, IsDigit))), p),
          Cardinality({k \in 1..Len(number) : \E j \in 1..(k - 1) : number[j] = Dot})
          + FactorZeros(p),
          number \o Text(<<" ">>) \o token)

ResultAt(text, o) ==
    ResultOf(SubSeq(text, o[1], o[2]), SubSeq(text, o[3], o[3] + 3), o[4])

\* the one occurrence that starts at i
OccurrenceAt(text, i, Fold(_)) ==
    CHOOSE o \in (i..Len(text)) \X (i..Len(text)) \X (i..Len(text)) \X (1..6) :
        o[1] = i /\ Occurs(text, i, o[2], o[3], o[4], Fold)

LeftmostStart(text, Fold(_)) ==
    CHOOSE i \in 1..Len(text) :
        OccursAt(text, i, Fold) /\ \A j \in 1..(i - 1) : ~OccursAt(text, j, Fold)

\* what the claim requires of the return value
Required(text, Fold(_)) ==
    IF HasOccurrence(text, Fold)
    THEN ResultAt(text, OccurrenceAt(text, LeftmostStart(text, Fold), Fold))
    ELSE NoneExact

\* the difference of two whole numbers
Diff(x, y) == IF DigitsGreater(x, y) THEN Minus(x, y) ELSE Minus(y, x)

\* the float v is num / 10^zeros to within the rounding of float arithmetic:
\* they differ by no more than 2^-51 of num / 10^zeros
Close(v, num, zeros) ==
    /\ v /= Inf
    /\ ~DigitsGreater(
            TimesPower(Diff(TimesPower(IF v.mant = <<>> THEN <<>>
                                       ELSE v.mant \o [k \in 1..zeros |-> 0],
                                       2, v.exp),
                            TimesPower(num, 2, -v.exp)),
                       2, 51),
            TimesPower(num, 2, -v.exp))

\* the return value is what the claim requires
Meets(got, req) ==
    IF req.ok
    THEN got.ok /\ got.display = req.display /\ Close(got.mbps, req.num, req.zeros)
    ELSE got = NoneParsed

\* C6: the return value is the leftmost occurrence of number, optional
\* whitespace and unit token, converted by the token's factor (to within the
\* rounding of float arithmetic) and displayed as number, one space, token; it
\* is no-match exactly when there is no occurrence.
\* "Case-insensitively" is read either as the folding of ASCII letters or as
\* the folding the regular expression applies.
C6_UnitConversion ==
    pc = "parsed" =>
        \/ Meets(parsed, Required(speed_text, AsciiLower))
        \/ Meets(parsed, Required(speed_text, FoldChar))

\* C6 on the texts whose letters are all ASCII, where the two readings agree
C6_AsciiConversion ==
    pc = "parsed" /\ (\A k \in 1..Len(speed_text) : speed_text[k] /= \h017F) =>
        Meets(parsed, Required(speed_text, AsciiLower))

\* "12.3 MB/s" has given 98.4 and the display "12.3 MB/s"
C6_ExampleConverted ==
    /\ pc = "parsed"
    /\ speed_text = Text(<<"1", "2", ".", "3", " ", "M", "B", "/", "s">>)
    /\ parsed = Parsed(FloatOf(Text(<<"9", "8", ".", "4">>)), speed_text)

(***************************************************************************)
(* Properties of the sort, checked under SpecSort                          *)
(***************************************************************************)
IpsOf(recs) == {recs[k].ip : k \in 1..Len(recs)}

RecordsOf(recs) == {recs[k] : k \in 1..Len(recs)}

\* where the record of an address stands in a list
PlaceOf(recs, ip) == CHOOSE k \in 1..Len(recs) : recs[k].ip = ip

Returned == pc \in {"main", "write", "print", "done"}

\* C3: in the returned list a record with the greater mbps precedes, and
\* records of equal mbps stand in the order in which the scan appended them
C3_SortLaw ==
    Returned =>
        /\ Len(items) = Len(discovered)
        /\ RecordsOf(items) = RecordsOf(discovered)
        /\ \A i, j \in 1..Len(items) :
               /\ FloatGreater(items[i].mbps, items[j].mbps) => i < j
               /\ (i < j /\ items[i].mbps = items[j].mbps)
                      => PlaceOf(discovered, items[i].ip) < PlaceOf(discovered, items[j].ip)

\* a list was returned in which the sort moved a record forward and kept two
\* records of equal mbps in their order of discovery
C3_TieKeptAfterMove ==
    /\ pc = "main"
    /\ \E i, j \in 1..Len(discovered) :
           i < j /\ FloatGreater(discovered[j].mbps, discovered[i].mbps)
    /\ \E i, j \in 1..Len(items) : i < j /\ items[i].mbps = items[j].mbps

(***************************************************************************)
(* Properties of the scan and of main, checked under Spec.  They speak of  *)
(* the last turn of a row loop: the row it took, the loop it was, and the  *)
(* records before and after it.                                            *)
(***************************************************************************)
TurnTaken == last_turn /= <<>>

TurnRow == last_turn[1].tr

TurnBy == last_turn[1].by

Before == last_turn[1].before

\* the records the last turn appended
Added == SubSeq(results, Len(Before) + 1, Len(results))

IsPrefix(a, b) == Len(a) <= Len(b) /\ SubSeq(b, 1, Len(a)) = a

\* the qualifying occurrences of the row of the last turn, in discovery order
TurnCandidates ==
    IF TurnBy = "column" THEN ColumnOf[TurnRow][Cols] ELSE FallbackOf[TurnRow]

\* the k-th candidate is the first of its address among the candidates
FirstOfItsAddress(cands, k) == \A j \in 1..(k - 1) : cands[j].ip /= cands[k].ip

\* C1: the recorded addresses are pairwise distinct; a turn leaves every
\* earlier record as it was and appends, for each address not recorded before,
\* the record of its first qualifying occurrence in the row; the returned list
\* holds the discovered records unchanged
C1_DedupLaw ==
    /\ \A i, j \in 1..Len(results) : i /= j => results[i].ip /= results[j].ip
    /\ seen_ips = IpsOf(results)
    /\ TurnTaken =>
          /\ IsPrefix(Before, results)
          /\ \A k \in 1..Len(TurnCandidates) : TurnCandidates[k].ip \in IpsOf(results)
          /\ \A n \in 1..Len(Added) :
                /\ Added[n].ip \notin IpsOf(Before)
                /\ \E k \in 1..Len(TurnCandidates) :
                       /\ TurnCandidates[k] = Added[n]
                       /\ FirstOfItsAddress(TurnCandidates, k)
    /\ Returned => Len(items) = Len(discovered) /\ RecordsOf(items) = RecordsOf(discovered)

\* a turn met a qualifying occurrence of an address recorded earlier with
\* another speed, and the earlier record stands
C1_LaterOccurrenceDropped ==
    /\ TurnTaken
    /\ \E k \in 1..Len(TurnCandidates) : \E n \in 1..Len(Before) :
           /\ Before[n].ip = TurnCandidates[k].ip
           /\ Before[n].mbps /= TurnCandidates[k].mbps
           /\ results[n] = Before[n]

\* the text the marker is looked for in, and the text addresses are taken from
EnoughCells == Len(TurnRow.cells) > Max3(ip_col, provider_col, speed_col)

TurnHasMarker ==
    IF TurnBy = "column"
    THEN EnoughCells /\ Contains(GetText(TurnRow.cells[provider_col + 1], <<>>), Marker)
    ELSE Contains(RowText(TurnRow), Marker)

AddressSource ==
    IF TurnBy = "column"
    THEN GetText(TurnRow.cells[ip_col + 1], Text(<<" ">>))
    ELSE RowText(TurnRow)

\* C2: a turn on a row without the provider marker (in its provider cell in
\* column mode, in its joined text in fallback mode) appends nothing; every
\* record a turn appends has its address in a row that bears the marker
C2_ExclusionLaw ==
    TurnTaken =>
        /\ ~TurnHasMarker => results = Before
        /\ \A n \in 1..Len(Added) :
               TurnHasMarker /\ Contains(AddressSource, Added[n].ip)

\* text[a..b] is a decimal component in [0, 255]
IsComponent(text, a, b) ==
    /\ a <= b
    /\ b - a + 1 <= 3
    /\ \A k \in a..b : IsDigit(text[k])
    /\ DigitsValue(SubSeq(text, a, b)) <= 255

\* a dotted-quad of four decimal components each in [0, 255]
ValidQuad(ip) ==
    \E d1, d2, d3 \in 1..Len(ip) :
        /\ {k \in 1..Len(ip) : ip[k] = Dot} = {d1, d2, d3}
        /\ d1 < d2 /\ d2 < d3
        /\ IsComponent(ip, 1, d1 - 1)
        /\ IsComponent(ip, d1 + 1, d2 - 1)
        /\ IsComponent(ip, d2 + 1, d3 - 1)
        /\ IsComponent(ip, d3 + 1, Len(ip))

\* the dotted-quads found in the joined text of each input row, in order, and
\* those of them that are valid
QuadsOf == [tr \in BodyTrs |-> IpFindAll(RowText(tr))]

ValidQuads ==
    {ip \in UNION {{QuadsOf[tr][k] : k \in 1..Len(QuadsOf[tr])} : tr \in BodyTrs} :
        ValidQuad(ip)}

\* a turn on a marker-less row that holds a valid address not yet recorded
\* has appended nothing
C2_ValidAddressExcluded ==
    /\ TurnTaken
    /\ ~TurnHasMarker
    /\ results = Before
    /\ \E k \in 1..Len(QuadsOf[TurnRow]) :
           /\ QuadsOf[TurnRow][k] \in ValidQuads
           /\ QuadsOf[TurnRow][k] \notin seen_ips

\* C4: every recorded address and every member of the seen set is a
\* dotted-quad of four components in [0, 255], during the scan and in the
\* returned list; a fallback turn on a marker-bearing row records every valid
\* dotted-quad of the row, whatever out-of-range quads the row holds as well
C4_AddressValidity ==
    /\ \A ip \in seen_ips \cup IpsOf(results) \cup IpsOf(items) : ip \in ValidQuads
    /\ TurnTaken /\ TurnBy = "fallback" /\ TurnHasMarker =>
          \A k \in 1..Len(QuadsOf[TurnRow]) :
              QuadsOf[TurnRow][k] \in ValidQuads => QuadsOf[TurnRow][k] \in seen_ips

\* a fallback turn skipped an out-of-range quad and appended the valid
\* address that follows it in the same row
C4_SkippedAndWentOn ==
    /\ TurnTaken
    /\ TurnBy = "fallback"
    /\ \E i, j \in 1..Len(QuadsOf[TurnRow]) :
           /\ i < j
           /\ QuadsOf[TurnRow][i] \notin ValidQuads
           /\ QuadsOf[TurnRow][i] \notin seen_ips
           /\ QuadsOf[TurnRow][j] \in IpsOf(Added)

\* the text the speed of the row of the last turn is read from
SpeedSource ==
    IF TurnBy = "column"
    THEN GetText(TurnRow.cells[speed_col + 1], Text(<<" ">>))
    ELSE RowText(TurnRow)

NonNegative(mbps) == ~FloatGreater(Zero, mbps)

\* the texts a speed can be read from: the cells and the joined text of the
\* input rows; and those of them that hold no recognised speed expression
SourceTexts ==
    {RowText(tr) : tr \in BodyTrs}
    \cup UNION {{GetText(tr.cells[k], Text(<<" ">>)) : k \in 1..Len(tr.cells)} : tr \in BodyTrs}

NoSpeedIn == {text \in SourceTexts : ~HasOccurrence(text, AsciiLower)}

\* the display the code gives a record whose speed source has no speed
\* expression
UnparsedDisplay ==
    IF TurnBy = "column" /\ SpeedSource /= <<>> THEN SpeedSource ELSE Unknown

C7_OutcomeMapping ==
    /\ pc /= "done" => rc = NoRc
    /\ pc = "done" =>
          /\ rc \in 0..3
          /\ rc = 1 <=> fetched = "failed"
          /\ rc = 2 <=> (fetched = "ok" /\ items = <<>>)
          /\ rc = 3 <=> (items /= <<>> /\ wrote = "failed")
          /\ rc = 0 <=> (items /= <<>> /\ wrote = "ok")
          /\ rc = 0 => printed = FormatLines(items) /\ printed /= <<>>
    /\ wrote = "ok" => written = <<FileBytes(FormatLines(items))>>
    /\ wrote /= "none" => items /= <<>>
    /\ fetched /= "ok" =>
          /\ pc \in {"fetch", "retry", "done"}
          /\ ntables = 0
          /\ results = <<>>
          /\ items = <<>>
    /\ items = <<>> => written \in PriorFiles

\* main has returned 0: several lines stand in dx.txt, each ended by a line
\* feed, and have been printed
C7_WrittenAndPrinted ==
    /\ pc = "done"
    /\ rc = 0
    /\ fetched = "ok"
    /\ Len(lines) >= 2
    /\ wrote = "ok"
    /\ written = <<FileBytes(lines)>>
    /\ printed = lines

\* C8: while a table is scanned, the mode is column exactly when all three
\* roles are resolved and fallback exactly when one is not; only the loop of
\* that mode takes turns on the table; a row that yields nothing in column
\* mode adds no record, whatever row-wide parsing would find in it
C8_ModeExclusivity ==
    /\ pc = "rows" =>
          /\ mode = "column" <=> AllResolved
          /\ mode = "fallback" <=> ~AllResolved
    /\ loops_run \subseteq {mode}
    /\ TurnTaken => TurnBy = mode
    /\ TurnTaken /\ TurnBy = "column" /\ ColumnOf[TurnRow][Cols] = <<>> => results = Before

\* a column-mode turn added nothing for a row in which row-wide parsing finds
\* an address not yet recorded
C8_NoFallbackInColumnMode ==
    /\ TurnTaken
    /\ TurnBy = "column"
    /\ AllResolved
    /\ results = Before
    /\ \E k \in 1..Len(FallbackOf[TurnRow]) : FallbackOf[TurnRow][k].ip \notin seen_ips

\* the header row of a table without thead: its first row, which holds a th
FirstRowIsHeader == pc = "rows" /\ ~has_thead /\ header_row /= <<>>

HeaderAmongBodyRows ==
    \/ \E k \in 1..Len(body_rows) : body_rows[k] = header_row[1]
    \/ TurnTaken /\ TurnRow = header_row[1]

\* C9, as amended: in a table without thead whose first row holds a th, that
\* row gives the header cells, and it is among the body rows only when the
\* table has a tbody and the row lies in it
C9_HeaderRowExcluded ==
    FirstRowIsHeader =>
        /\ headers_text = HeadersText(header_row[1].cells)
        /\ HeaderAmongBodyRows => has_tbody /\ InTbody(header_row[1])

\* C9 as stated: in a table without thead whose first row holds a th, that
\* row gives the header cells and is not among the body rows, whether or not
\* a tbody holds it; it adds no record
C9_HeaderRowNeverBody ==
    FirstRowIsHeader =>
        /\ headers_text = HeadersText(header_row[1].cells)
        /\ ~HeaderAmongBodyRows

\* the first row of a table without thead and tbody was taken as the header,
\* and no row of the table is a body row so far, though row-wide parsing
\* would find an address in the header row
C9_HeaderRowSkipped ==
    /\ FirstRowIsHeader
    /\ ~has_tbody
    /\ tr_no = 1
    /\ body_rows = <<>>
    /\ ~TurnTaken
    /\ FallbackOf[header_row[1]] /= <<>>

=============================================================================
